---- MODULE Spec2Model ----
(***************************************************************************)
(* A model of the agent framework of src/agents: the token-budgeted        *)
(* message history (utils/history_util.py), the control loop of the Agent  *)
(* (agent.py), the tool dispatcher (utils/tool_util.py) and the lifecycle  *)
(* of the MCP connections of one run (utils/connections.py); and of the    *)
(* autonomous coding agent of src/autonomous-coding: the hook that checks  *)
(* Bash commands (security.py) and the loop of sessions (agent.py).        *)
(***************************************************************************)
EXTENDS Integers, Sequences, FiniteSets, TLC

VARIABLES
    history,                \* Agent.history: messages, message_tokens, total_tokens
    context_window_tokens,  \* MessageHistory.context_window_tokens (the budget)
    system_token,           \* the cost of the system prompt, counted at construction
    pc,                     \* the position of the control loop of the Agent
    tool_calls,             \* the tool_use blocks of the last response
    calls,                  \* backend calls made so far, failed ones included
    errored,                \* a run of this Agent has ended by a backend error
    pass_len,               \* len(messages) when the current truncate() was called
    pass_pairs,             \* pairs removed so far by the current truncate()
    pass_raised,            \* a rewrite of this truncate() put the total
                            \* over the budget that the removal had met
    response,               \* the local response of _agent_loop
    run_result,             \* how the last run ended: what it returned or raised
    message_params,         \* Agent.message_params, the overrides of the caller
    request,                \* the keyword arguments of the messages.create at hand
    run_calls,              \* backend calls made so far by the current run
    \* execute_tools (utils/tool_util.py)
    d_pc,                   \* "idle", "running" or "returned"
    d_calls,                \* tool_calls, the batch of requests
    d_parallel,             \* the parallel argument
    d_results,              \* the result of each finished task, by position
    d_order,                \* the positions of the tasks in completion order
    d_behaviours,           \* what the execute of each finished task did
    d_returned,             \* the list execute_tools returned
    d_started,              \* how many of the calls have started to execute
    \* run_async and setup_mcp_connections (agent.py, utils/connections.py)
    mcp_servers,            \* Agent.mcp_servers, the configured servers
    run_pc,                 \* the position of run_async
    cfg_i,                  \* the index of the for loop of setup_mcp_connections
    conn,                   \* the MCPConnection made for each config in this run
    stack,                  \* the exit callbacks of the AsyncExitStack
    mcp_tools,              \* the list setup_mcp_connections builds
    tools,                  \* Agent.tools
    original_tools,         \* the copy run_async restores in its finally
    exit_path,              \* how the run ended: "return", "error", "cancel"
    setup_outcome,          \* how the setup of each config ended in this run
    invoked,                \* the last call the loop of this run dispatched
    prior_run,              \* a run_async of this Agent has ended before
    o_pc,                   \* the position of each of several run_async tasks
    o_original,             \* the original_tools of each of the tasks
    o_conn,                 \* the connection each of the tasks has made
    o_overlapped,           \* a task started while another one was under way
    hook_input,             \* the input_data bash_security_hook is called with
    hook_output,            \* what bash_security_hook returned
    max_iterations,         \* the argument of run_autonomous_agent
    iteration,              \* the counter of its while loop
    is_first_run,           \* no feature_list.json yet: the initializer goes first
    auto_pc,                \* the position of run_autonomous_agent
    sessions,               \* the prompts of the sessions started, in order
    status                  \* what the last run_agent_session returned

agentVars == <<history, context_window_tokens, system_token, pc, tool_calls,
               calls, errored, pass_len, pass_pairs, pass_raised, response,
               run_result, message_params, request, run_calls>>

dispVars == <<d_pc, d_calls, d_parallel, d_results, d_order, d_behaviours,
              d_returned, d_started>>

overlapVars == <<o_pc, o_original, o_conn, o_overlapped>>

runVars == <<mcp_servers, run_pc, cfg_i, conn, stack, mcp_tools, tools,
             original_tools, exit_path, setup_outcome, invoked, prior_run,
             overlapVars>>

codingVars == <<hook_input, hook_output, max_iterations, iteration,
                is_first_run, auto_pc, sessions, status>>

vars == <<agentVars, dispVars, runVars, codingVars>>

(***************************************************************************)
(* Bounds of the model.                                                    *)
(***************************************************************************)
\* backend calls (messages.create) over the life of one Agent
MaxCalls == 3

\* tool_use blocks in one batch handed to execute_tools
MaxBatch == 3

\* entries of Agent.mcp_servers
MaxServers == 2

\* run_async tasks of one Agent on one event loop
MaxRuns == 2

(***************************************************************************)
(* Content blocks and backend responses.                                   *)
(***************************************************************************)
TRUNCATION_NOTICE_TOKENS == 25

TextBlock(t) == [type |-> "text", text |-> t]

ToolUseBlock(i, n) == [type |-> "tool_use", id |-> i, name |-> n]

TRUNCATION_MESSAGE ==
    [role |-> "user",
     content |-> <<TextBlock("[Earlier history has been truncated.]")>>]

\* The budgets and system prompt costs an Agent is constructed with.
Budgets == {30, 60}

SystemTokens == {0, 35}

\* The usage records a backend response carries; the cache counters are
\* optional attributes that default to 0.
Usages ==
    { [input_tokens |-> 10, cache_read_input_tokens |-> 0,
       cache_creation_input_tokens |-> 0, output_tokens |-> 5],
      [input_tokens |-> 25, cache_read_input_tokens |-> 0,
       cache_creation_input_tokens |-> 0, output_tokens |-> 5],
      [input_tokens |-> 40, cache_read_input_tokens |-> 0,
       cache_creation_input_tokens |-> 0, output_tokens |-> 5],
      [input_tokens |-> 40, cache_read_input_tokens |-> 15,
       cache_creation_input_tokens |-> 10, output_tokens |-> 10] }

\* The content of the k-th backend response: text only, or text and one or
\* two tool_use blocks with ids unique to the response.
ResponseContents(k) ==
    { <<TextBlock("answer")>>,
      <<TextBlock("step"), ToolUseBlock(10 * k + 1, "think")>>,
      <<ToolUseBlock(10 * k + 1, "think"), ToolUseBlock(10 * k + 2, "missing")>> }

(***************************************************************************)
(* MessageHistory.                                                         *)
(***************************************************************************)
NoUsage == [none |-> TRUE]

\* MessageHistory.__init__
NewHistory(sys) ==
    [messages |-> <<>>, message_tokens |-> <<>>, total_tokens |-> sys]

\* An add_message that takes input_tokens alone for the cumulative input.
add_message_input_only(h, role, content, usage) ==
    LET appended == Append(h.messages, [role |-> role, content |-> content])
    IN  IF role = "assistant" /\ usage # NoUsage
        THEN LET current_turn_input == usage.input_tokens - h.total_tokens
             IN  [messages |-> appended,
                  message_tokens |->
                      Append(h.message_tokens,
                             <<current_turn_input, usage.output_tokens>>),
                  total_tokens |->
                      h.total_tokens + current_turn_input + usage.output_tokens]
        ELSE [h EXCEPT !.messages = appended]

\* MessageHistory.add_message; a str content arrives here already wrapped
\* as one text block.
add_message(h, role, content, usage) ==
    LET appended == Append(h.messages, [role |-> role, content |-> content])
    IN  IF role = "assistant" /\ usage # NoUsage
        THEN LET total_input == usage.input_tokens
                                + usage.cache_read_input_tokens
                                + usage.cache_creation_input_tokens
                 output_tokens == usage.output_tokens
                 current_turn_input == total_input - h.total_tokens
             IN  [messages |-> appended,
                  message_tokens |->
                      Append(h.message_tokens,
                             <<current_turn_input, output_tokens>>),
                  total_tokens |->
                      h.total_tokens + current_turn_input + output_tokens]
        ELSE [h EXCEPT !.messages = appended]

\* remove_message_pair with a single pop of messages.
remove_message_pair_one_pop(h) ==
    LET popped == Tail(h.messages)
    IN  IF h.message_tokens # <<>>
        THEN [messages |-> popped,
              message_tokens |-> Tail(h.message_tokens),
              total_tokens |-> h.total_tokens
                               - (Head(h.message_tokens)[1]
                                  + Head(h.message_tokens)[2])]
        ELSE [h EXCEPT !.messages = popped]

\* remove_message_pair, the closure of truncate(): two pops from the front
\* of messages, and one pop of message_tokens when it is not empty.
remove_message_pair(h) ==
    LET popped == SubSeq(h.messages, 3, Len(h.messages))
    IN  IF h.message_tokens # <<>>
        THEN [messages |-> popped,
              message_tokens |-> Tail(h.message_tokens),
              total_tokens |-> h.total_tokens
                               - (Head(h.message_tokens)[1]
                                  + Head(h.message_tokens)[2])]
        ELSE [h EXCEPT !.messages = popped]

\* A while loop that goes on while two turns and a cost entry are left,
\* whatever total_tokens is.
TruncateLoopCond_no_budget(h, budget) ==
    /\ h.message_tokens # <<>>
    /\ Len(h.messages) >= 2

\* The condition of the while loop of truncate().
TruncateLoopCond(h, budget) ==
    /\ h.message_tokens # <<>>
    /\ Len(h.messages) >= 2
    /\ h.total_tokens > budget

\* The rewrite without the adjustment of total_tokens.
RewriteOldest_total_kept(h) ==
    IF h.messages # <<>> /\ h.message_tokens # <<>>
    THEN [messages |-> [h.messages EXCEPT ![1] = TRUNCATION_MESSAGE],
          message_tokens |->
              [h.message_tokens EXCEPT
                  ![1] = <<TRUNCATION_NOTICE_TOKENS, h.message_tokens[1][2]>>],
          total_tokens |-> h.total_tokens]
    ELSE h

\* A rewrite of the oldest turn whenever a turn is left, with or without
\* a cost entry.
RewriteOldest_any_turn(h) ==
    IF h.messages # <<>>
    THEN [messages |-> [h.messages EXCEPT ![1] = TRUNCATION_MESSAGE],
          message_tokens |->
              IF h.message_tokens # <<>>
              THEN [h.message_tokens EXCEPT
                       ![1] = <<TRUNCATION_NOTICE_TOKENS, h.message_tokens[1][2]>>]
              ELSE h.message_tokens,
          total_tokens |->
              IF h.message_tokens # <<>>
              THEN h.total_tokens
                   + (TRUNCATION_NOTICE_TOKENS - h.message_tokens[1][1])
              ELSE h.total_tokens + TRUNCATION_NOTICE_TOKENS]
    ELSE h

\* A rewrite that drops the output cost of the rewritten entry.
RewriteOldest_output_dropped(h) ==
    IF h.messages # <<>> /\ h.message_tokens # <<>>
    THEN [messages |-> [h.messages EXCEPT ![1] = TRUNCATION_MESSAGE],
          message_tokens |->
              [h.message_tokens EXCEPT ![1] = <<TRUNCATION_NOTICE_TOKENS, 0>>],
          total_tokens |-> h.total_tokens
                           + (TRUNCATION_NOTICE_TOKENS - h.message_tokens[1][1])]
    ELSE h

\* A rewrite that charges nothing for the notice.
RewriteOldest_no_charge(h) ==
    IF h.messages # <<>> /\ h.message_tokens # <<>>
    THEN [messages |-> [h.messages EXCEPT ![1] = TRUNCATION_MESSAGE],
          message_tokens |->
              [h.message_tokens EXCEPT ![1] = <<0, h.message_tokens[1][2]>>],
          total_tokens |-> h.total_tokens - h.message_tokens[1][1]]
    ELSE h

\* The rewrite of the new oldest turn after a removal.
RewriteOldest(h) ==
    IF h.messages # <<>> /\ h.message_tokens # <<>>
    THEN LET original_input_tokens == h.message_tokens[1][1]
             original_output_tokens == h.message_tokens[1][2]
         IN  [messages |-> [h.messages EXCEPT ![1] = TRUNCATION_MESSAGE],
              message_tokens |->
                  [h.message_tokens EXCEPT
                      ![1] = <<TRUNCATION_NOTICE_TOKENS, original_output_tokens>>],
              total_tokens |-> h.total_tokens
                               + (TRUNCATION_NOTICE_TOKENS - original_input_tokens)]
    ELSE h

\* An iteration that rewrites the oldest turn and removes nothing.
TruncateBody_rewrite_only(h) == RewriteOldest(h)

\* One iteration of the while loop of truncate().
TruncateBody(h) == RewriteOldest(remove_message_pair(h))

\* enable_caching, which Agent leaves at the default of MessageHistory.
enable_caching == TRUE

\* {**block, "cache_control": {"type": "ephemeral"}}: a new block.
Marked(block) == [cache_control |-> [type |-> "ephemeral"]] @@ block

IsMarked(block) == "cache_control" \in DOMAIN block

\* A render that marks the blocks of every turn.
format_for_api_marks_all(h, caching) ==
    [i \in DOMAIN h.messages |->
        [role |-> h.messages[i].role,
         content |-> [k \in DOMAIN h.messages[i].content |->
                         Marked(h.messages[i].content[k])]]]

\* MessageHistory.format_for_api: one new dict per message with the role
\* and the content of the message, and, with caching and a message at
\* hand, a new list of marked copies of the blocks of the last message.
format_for_api(h, caching) ==
    [i \in DOMAIN h.messages |->
        [role |-> h.messages[i].role,
         content |->
            IF caching /\ i = Len(h.messages)
            THEN [k \in DOMAIN h.messages[i].content |->
                     Marked(h.messages[i].content[k])]
            ELSE h.messages[i].content]]

\* A render that writes the marker into the blocks of the last message.
history_after_format_marked(h, caching) ==
    IF caching /\ h.messages # <<>>
    THEN [h EXCEPT !.messages[Len(h.messages)].content =
             [k \in DOMAIN @ |-> Marked(@[k])]]
    ELSE h

\* What format_for_api leaves in the MessageHistory: it reads messages
\* and writes to the dicts and the list it has made itself only.
history_after_format(h, caching) == h

(***************************************************************************)
(* Tools and the dispatcher (utils/tool_util.py).                          *)
(***************************************************************************)
\* A tool with a local execute.
ThinkTool == [name |-> "think", kind |-> "local", connection |-> 0]

\* A server tool: a name and a type, and no execute method.
CodeExecutionServerTool ==
    [name |-> "code_execution", kind |-> "server", connection |-> 0]

\* FileReadTool, a local tool that reads a file or lists a directory.
FileReadTool == [name |-> "file_read", kind |-> "file", connection |-> 0]

\* A tool discovered through connection c.
MCPTool(n, c) == [name |-> n, kind |-> "mcp", connection |-> c]

\* tool_dict = {tool.name: tool for tool in self.tools}: of two tools with
\* one name the later one of the list stays.
ToolDict(ts) ==
    [n \in {ts[i].name : i \in DOMAIN ts} |->
        ts[CHOOSE i \in DOMAIN ts :
              /\ ts[i].name = n
              /\ \A j \in DOMAIN ts : ts[j].name = n => j <= i]]

\* What a call of execute can do: return a value, or raise.
Returns(v) == [kind |-> "return", value |-> v]

Raises(e, m) == [kind |-> "raise", exc |-> e, msg |-> m]

\* The values a tool returns: a string, or a small integer.
StrValue(x) == [t |-> "str", s |-> x]

IntValue(n) == [t |-> "int", n |-> n]

\* str() of the values tools return.
Str(v) ==
    IF v.t = "str" THEN v.s
    ELSE <<"0", "1", "2", "3", "4", "5", "6", "7", "8", "9">>[v.n + 1]

\* A tool_result that carries is_error true.
IsError(r) == "is_error" \in DOMAIN r /\ r.is_error

\* A lookup by tool_dict.get: None for a name that is no key, whose
\* execute is then an AttributeError.
ExecuteOutcome_get(call, tool_dict, behaviour) ==
    IF call.name \notin DOMAIN tool_dict
    THEN Raises("AttributeError", "'NoneType' object has no attribute 'execute'")
    ELSE IF tool_dict[call.name].kind = "server"
    THEN Raises("AttributeError", "no attribute 'execute'")
    ELSE behaviour

\* tool_dict[call.name].execute(**call.input): the lookup raises KeyError
\* for a name that is no key, the attribute access raises AttributeError
\* for a tool without execute, and otherwise the tool runs.
ExecuteOutcome(call, tool_dict, behaviour) ==
    IF call.name \notin DOMAIN tool_dict
    THEN Raises("KeyError", call.name)
    ELSE IF tool_dict[call.name].kind = "server"
    THEN Raises("AttributeError", "no attribute 'execute'")
    ELSE behaviour

\* _execute_single_tool, for a call whose execute does not raise a
\* BaseException.
execute_single_tool(call, tool_dict, behaviour) ==
    LET outcome == ExecuteOutcome(call, tool_dict, behaviour)
    IN  IF outcome.kind = "return"
        THEN [type |-> "tool_result", tool_use_id |-> call.id,
              content |-> <<Str(outcome.value)>>]
        ELSE IF outcome.exc = "KeyError"
        THEN [type |-> "tool_result", tool_use_id |-> call.id,
              content |-> <<"Tool '", call.name, "' not found">>,
              is_error |-> TRUE]
        ELSE [type |-> "tool_result", tool_use_id |-> call.id,
              content |-> <<"Error executing tool: ", outcome.msg>>,
              is_error |-> TRUE]

\* The list execute_tools returns when no task raises a BaseException:
\* one result per call, at the position of the call.
execute_tools(cs, tool_dict, behaviours) ==
    [i \in DOMAIN cs |-> execute_single_tool(cs[i], tool_dict, behaviours[i])]

\* No execute runs for a call whose name is no key of tool_dict or whose
\* tool has no execute method.
NotExecuted == [kind |-> "none"]

\* ThinkTool.execute
ThinkExecute == Returns(StrValue("Thinking complete!"))

\* What a call can meet in the tool it names: arguments that do not fit
\* the signature of execute, a path that does not exist, a read that
\* raises, a call_tool that raises, an answer of the server without a
\* text item.
EventsOf(kind) ==
    IF kind = "local" THEN {"ok", "bad_arguments"}
    ELSE IF kind = "file"
    THEN {"ok", "bad_arguments", "missing_resource", "io_fault"}
    ELSE IF kind = "mcp" THEN {"ok", "transport_fault", "no_text"}
    ELSE {"no_execute"}

\* The binding of **call.input to the parameters of execute fails.
BadArguments == Raises("TypeError", "got an unexpected keyword argument")

\* ThinkTool.execute(thought) called with the input of the call.
LocalExecute(event) ==
    IF event = "bad_arguments" THEN BadArguments ELSE ThinkExecute

\* FileReadTool.execute with operation "read": _read_file returns the
\* text of the file, and returns a text that starts with "Error" when the
\* path does not exist or the read raises.
FileReadExecute(event) ==
    IF event = "bad_arguments" THEN BadArguments
    ELSE IF event = "missing_resource"
    THEN Returns(StrValue("Error: File not found at <path>"))
    ELSE IF event = "io_fault"
    THEN Returns(StrValue("Error reading <path>: <e>"))
    ELSE Returns(StrValue("<the text of the file>"))

\* MCPTool.execute: the text of the first text item of the answer, a
\* fixed text when there is none, and a text that starts with "Error
\* executing" when connection.call_tool raises.
MCPToolExecute(event) ==
    IF event = "transport_fault"
    THEN Returns(StrValue("Error executing <name>: <e>"))
    ELSE IF event = "no_text"
    THEN Returns(StrValue("No text content in tool response"))
    ELSE Returns(StrValue("<the text of the server>"))

\* await tool.execute(**call.input) for a tool of each class.
ToolExecute(tool, event) ==
    IF tool.kind = "local" THEN LocalExecute(event)
    ELSE IF tool.kind = "file" THEN FileReadExecute(event)
    ELSE IF tool.kind = "mcp" THEN MCPToolExecute(event)
    ELSE NotExecuted


(***************************************************************************)
(* The states of the three parts of the model when they are at rest.       *)
(***************************************************************************)
\* MCPConnection.__init__: session, _rw_ctx and _session_ctx are None. rw
\* and sess are the transport channel and the ClientSession behind them;
\* the counters count the calls of their __aexit__ and of the __aexit__ of
\* the connection, released lists the resources in the order of release,
\* close_outcome and close_raised tell what the contexts did in __aexit__
\* and what left it.
NewConnection ==
    [kind |-> "none", rw_ctx |-> FALSE, session_ctx |-> FALSE,
     session |-> FALSE, rw |-> "none", sess |-> "none", entered |-> FALSE,
     handshake_failed |-> FALSE, aenters |-> 0, aexits |-> 0, sess_exits |-> 0,
     rw_exits |-> 0, released |-> <<>>, close_outcome |-> "none",
     close_raised |-> "none"]

\* Agent.message_params when the caller gives none: the empty dict.
NoParams == [k \in {} |-> ""]

\* No messages.create at hand.
NoRequest == [none |-> TRUE]

\* The defaults of ModelConfig and the system prompt of the Agent.
ModelConfig ==
    [model |-> "claude-sonnet-4-20250514", max_tokens |-> 4096,
     temperature |-> 1]

\* Tool.to_dict, and the to_dict of a server tool.
to_dict(tool) ==
    IF tool.kind = "server"
    THEN [type |-> "code_execution_20250522", name |-> tool.name]
    ELSE [name |-> tool.name, description |-> "description",
          input_schema |-> "input_schema"]

\* A merge in which the computed defaults win over the caller.
prepare_message_params_defaults_win(messages, ts, overrides) ==
    [model |-> ModelConfig.model,
     max_tokens |-> ModelConfig.max_tokens,
     temperature |-> ModelConfig.temperature,
     system |-> "system",
     messages |-> messages,
     tools |-> [i \in DOMAIN ts |-> to_dict(ts[i])]] @@ overrides

\* Agent._prepare_message_params: the computed defaults, and over them
\* the entries of message_params.
prepare_message_params(messages, ts, overrides) ==
    overrides @@
    [model |-> ModelConfig.model,
     max_tokens |-> ModelConfig.max_tokens,
     temperature |-> ModelConfig.temperature,
     system |-> "system",
     messages |-> messages,
     tools |-> [i \in DOMAIN ts |-> to_dict(ts[i])]]

default_headers == "anthropic-beta" :> "code-execution-2025-05-22"

\* Headers in which the map of the caller replaces the defaults.
merged_headers_replaced(params) ==
    IF "extra_headers" \in DOMAIN params
    THEN params["extra_headers"]
    ELSE default_headers

\* merged_headers of _agent_loop: {**default_headers, **custom_headers}
\* when params holds extra_headers, the defaults if not.
merged_headers(params) ==
    IF "extra_headers" \in DOMAIN params
    THEN params["extra_headers"] @@ default_headers
    ELSE default_headers

\* The keyword arguments of client.messages.create(**params,
\* extra_headers=merged_headers), after params.pop("extra_headers").
create_kwargs(params) ==
    ("extra_headers" :> merged_headers(params)) @@
    [k \in DOMAIN params \ {"extra_headers"} |-> params[k]]

\* No response yet in this run, and no run yet.
NoResponse == [none |-> TRUE]

NoResult == [kind |-> "none"]

\* A run that has not ended.
Running == [kind |-> "running"]

\* No call dispatched yet in the loop of this run.
NotInvoked == [event |-> "none"]

StaticTools == <<ThinkTool, CodeExecutionServerTool, FileReadTool>>

AgentAtRest ==
    /\ context_window_tokens = 60
    /\ system_token = 0
    /\ history = [messages |-> <<>>, message_tokens |-> <<>>, total_tokens |-> 0]
    /\ pc = "idle"
    /\ tool_calls = <<>>
    /\ calls = 0
    /\ errored = FALSE
    /\ pass_len = 0
    /\ pass_pairs = 0
    /\ pass_raised = FALSE
    /\ response = NoResponse
    /\ run_result = NoResult
    /\ message_params = NoParams
    /\ request = NoRequest
    /\ run_calls = 0

DispatcherAtRest ==
    /\ d_pc = "idle"
    /\ d_calls = <<>>
    /\ d_parallel = TRUE
    /\ d_results = <<>>
    /\ d_order = <<>>
    /\ d_behaviours = <<>>
    /\ d_returned = <<>>
    /\ d_started = 0

\* No call of bash_security_hook at hand.
NoHookInput == [tool_name |-> "none", command |-> <<>>]

NoHookOutput == [decision |-> "none", reason |-> "none"]

\* max_iterations = None.
None == [none |-> TRUE, n |-> 0]

\* Neither the hook nor run_autonomous_agent has been called.
CodingAtRest ==
    /\ hook_input = NoHookInput
    /\ hook_output = NoHookOutput
    /\ max_iterations = None
    /\ iteration = 0
    /\ is_first_run = FALSE
    /\ auto_pc = "idle"
    /\ sessions = <<>>
    /\ status = "none"

\* No run_async task of the Agent has started.
OverlapAtRest ==
    /\ o_pc = [r \in 1..MaxRuns |-> "idle"]
    /\ o_original = [r \in 1..MaxRuns |-> <<>>]
    /\ o_conn = [r \in 1..MaxRuns |-> "none"]
    /\ o_overlapped = FALSE

RunAtRest ==
    /\ OverlapAtRest
    /\ mcp_servers = <<>>
    /\ run_pc = "idle"
    /\ cfg_i = 1
    /\ conn = <<>>
    /\ stack = <<>>
    /\ mcp_tools = <<>>
    /\ tools = StaticTools
    /\ original_tools = StaticTools
    /\ exit_path = "none"
    /\ setup_outcome = <<>>
    /\ invoked = NotInvoked
    /\ prior_run = FALSE

(***************************************************************************)
(* The control loop of the Agent (Agent._agent_loop), for an Agent without *)
(* MCP servers: run_async adds no tool and closes nothing.                 *)
(***************************************************************************)
\* The request _agent_loop builds after truncate() has returned.
RequestOf(h, ts, overrides) ==
    create_kwargs(
        prepare_message_params(format_for_api(h, enable_caching), ts, overrides))

IsToolUse(b) == b.type = "tool_use"

ToolCallsOf(content) == SelectSeq(content, IsToolUse)

\* A loop that returns every response, tool requests or not.
after_response_returns(calls_of_response) == "idle"

\* `if tool_calls: ... else: return response`: the loop goes on to the
\* dispatch when the response holds a tool_use block, and returns if not.
after_response(calls_of_response) ==
    IF calls_of_response # <<>> THEN "tools" ELSE "idle"

\* A loop that catches the error of the backend and calls it again.
create_raises_retried == [pc |-> "request", result |-> Running]

\* client.messages.create raises inside `while True`, under no try: the
\* error leaves _agent_loop, run_async and run.
create_raises ==
    [pc |-> "idle", result |-> [kind |-> "raise", exc |-> "BackendError"]]

Init ==
    /\ context_window_tokens \in Budgets
    /\ system_token \in SystemTokens
    /\ history = NewHistory(system_token)
    /\ pc = "idle"
    /\ tool_calls = <<>>
    /\ calls = 0
    /\ errored = FALSE
    /\ pass_len = 0
    /\ pass_pairs = 0
    /\ pass_raised = FALSE
    /\ response = NoResponse
    /\ run_result = NoResult
    /\ message_params = NoParams
    /\ request = NoRequest
    /\ run_calls = 0
    /\ DispatcherAtRest
    /\ RunAtRest
    /\ CodingAtRest

\* _agent_loop up to its loop: the user input is appended.
AgentLoopStart ==
    /\ pc = "idle"
    /\ calls < MaxCalls
    /\ history' = add_message(history, "user", <<TextBlock("input")>>, NoUsage)
    /\ pc' = "truncate"
    /\ response' = NoResponse
    /\ run_result' = Running
    /\ run_calls' = 0
    /\ UNCHANGED <<context_window_tokens, system_token, tool_calls, calls,
                   errored, pass_len, pass_pairs, pass_raised, message_params,
                   request>>
    /\ UNCHANGED <<dispVars, runVars, codingVars>>

\* truncate() is called: the entry of its while loop, or its early return,
\* after which the request is built from the rendered History.
TruncateCall ==
    /\ pc = "truncate"
    /\ pass_len' = Len(history.messages)
    /\ pass_pairs' = 0
    /\ pass_raised' = FALSE
    /\ IF history.total_tokens <= context_window_tokens
       THEN /\ pc' = "request"
            /\ request' = RequestOf(history, tools, message_params)
            /\ history' = history_after_format(history, enable_caching)
       ELSE /\ pc' = "trunc_loop"
            /\ UNCHANGED <<history, request>>
    /\ UNCHANGED <<context_window_tokens, system_token, tool_calls,
                   calls, errored, response, run_result, message_params,
                   run_calls>>
    /\ UNCHANGED <<dispVars, runVars, codingVars>>

\* One iteration of the while loop of truncate().
TruncateIter ==
    /\ pc = "trunc_loop"
    /\ TruncateLoopCond(history, context_window_tokens)
    /\ history' = TruncateBody(history)
    /\ pass_pairs' = pass_pairs + 1
    /\ pass_raised' =
          (\/ pass_raised
           \/ /\ remove_message_pair(history).total_tokens
                   <= context_window_tokens
              /\ history'.total_tokens > context_window_tokens)
    /\ UNCHANGED <<context_window_tokens, system_token, pc, tool_calls, calls,
                   errored, pass_len, response, run_result, message_params,
                   request, run_calls>>
    /\ UNCHANGED <<dispVars, runVars, codingVars>>

\* The while loop of truncate() ends and truncate() returns; the request
\* is built from the rendered History.
TruncateReturn ==
    /\ pc = "trunc_loop"
    /\ ~TruncateLoopCond(history, context_window_tokens)
    /\ pc' = "request"
    /\ request' = RequestOf(history, tools, message_params)
    /\ history' = history_after_format(history, enable_caching)
    /\ UNCHANGED <<context_window_tokens, system_token, tool_calls,
                   calls, errored, pass_len, pass_pairs, pass_raised, response,
                   run_result, message_params, run_calls>>
    /\ UNCHANGED <<dispVars, runVars, codingVars>>

\* client.messages.create returns a response, which is appended with its
\* usage; the run returns the response when it holds no tool_use block.
BackendResponds ==
    /\ pc = "request"
    /\ calls < MaxCalls
    /\ \E content \in ResponseContents(calls + 1), usage \in Usages :
          /\ history' = add_message(history, "assistant", content, usage)
          /\ response' = [content |-> content, usage |-> usage]
          /\ tool_calls' = ToolCallsOf(content)
          /\ pc' = after_response(ToolCallsOf(content))
          /\ run_result' = IF pc' = "idle"
                            THEN [kind |-> "return", response |-> response']
                            ELSE run_result
    /\ calls' = calls + 1
    /\ run_calls' = run_calls + 1
    /\ request' = NoRequest
    /\ UNCHANGED <<context_window_tokens, system_token, errored, pass_len,
                   pass_pairs, pass_raised, message_params>>
    /\ UNCHANGED <<dispVars, runVars, codingVars>>

\* client.messages.create raises: the error leaves _agent_loop and the run.
BackendRaises ==
    /\ pc = "request"
    /\ calls < MaxCalls
    /\ calls' = calls + 1
    /\ errored' = TRUE
    /\ pc' = create_raises.pc
    /\ run_result' = create_raises.result
    /\ run_calls' = run_calls + 1
    /\ request' = NoRequest
    /\ UNCHANGED <<history, context_window_tokens, system_token, tool_calls,
                   pass_len, pass_pairs, pass_raised, response, message_params>>
    /\ UNCHANGED <<dispVars, runVars, codingVars>>

\* execute_tools returns the results of the requested calls, which are
\* appended as one user message.
ToolsExecuted ==
    /\ pc = "tools"
    /\ LET tool_results ==
               execute_tools(tool_calls, ToolDict(tools),
                             [i \in DOMAIN tool_calls |-> ThinkExecute])
       IN  history' = add_message(history, "user", tool_results, NoUsage)
    /\ pc' = "truncate"
    /\ UNCHANGED <<context_window_tokens, system_token, tool_calls, calls,
                   errored, pass_len, pass_pairs, pass_raised, response,
                   run_result,
                   message_params, request, run_calls>>
    /\ UNCHANGED <<dispVars, runVars, codingVars>>

\* The task of the run is cancelled while it awaits execute_tools.
CancelledInTools ==
    /\ pc = "tools"
    /\ pc' = "idle"
    /\ run_result' = [kind |-> "raise", exc |-> "CancelledError"]
    /\ UNCHANGED <<history, context_window_tokens, system_token, tool_calls,
                   calls, errored, pass_len, pass_pairs, pass_raised, response,
                   message_params, request, run_calls>>
    /\ UNCHANGED <<dispVars, runVars, codingVars>>

Next ==
    \/ AgentLoopStart
    \/ TruncateCall
    \/ TruncateIter
    \/ TruncateReturn
    \/ BackendResponds
    \/ BackendRaises
    \/ ToolsExecuted
    \/ CancelledInTools

Spec == Init /\ [][Next]_vars

\* The loop under the scheduling of one asyncio task: the code between two
\* awaits runs to its end, and the awaited execute_tools returns unless the
\* task is cancelled.
SpecLoop ==
    /\ Spec
    /\ WF_vars(TruncateCall)
    /\ WF_vars(TruncateIter)
    /\ WF_vars(TruncateReturn)
    /\ WF_vars(ToolsExecuted \/ CancelledInTools)

(***************************************************************************)
(* The request of an Agent constructed with message_params: the first      *)
(* iteration of the loop of its first run, up to messages.create.          *)
(***************************************************************************)
\* The keys a caller overrides, extra_headers aside: structural keys of
\* the request, a key with a default and a key without one.
OverrideKeys == {"model", "system", "messages", "tools", "max_tokens", "top_k"}

\* The value the caller gives to each key.
OverrideValue(k) ==
    CASE k = "model" -> "claude-3-haiku-20240307"
      [] k = "system" -> "system of the caller"
      [] k = "messages" ->
             <<[role |-> "user", content |-> <<TextBlock("of the caller")>>]>>
      [] k = "tools" ->
             <<[name |-> "tool of the caller", description |-> "description",
                input_schema |-> "input_schema"]>>
      [] k = "max_tokens" -> 200
      [] k = "top_k" -> 5

\* The extra_headers of the caller: an empty map, a value for the key of
\* the default, a key of its own, or both.
HeaderMaps ==
    { [k \in {} |-> ""],
      "anthropic-beta" :> "files-api-2025-04-14",
      "X-Test" :> "combined",
      ("anthropic-beta" :> "files-api-2025-04-14") @@ ("X-Test" :> "combined") }

\* The message_params an Agent is constructed with.
ParamOverrides ==
    LET plain == {[k \in keys |-> OverrideValue(k)] : keys \in SUBSET OverrideKeys}
    IN  plain \cup
        {("extra_headers" :> hs) @@ ps : hs \in HeaderMaps, ps \in plain}

\* The Agent has appended the input of its first run, or has a turn of an
\* earlier run in its History besides.
ParamsInit ==
    /\ message_params \in ParamOverrides
    /\ context_window_tokens = 60
    /\ system_token = 0
    /\ history \in
          { add_message(NewHistory(0), "user", <<TextBlock("input")>>, NoUsage),
            add_message(
                add_message(
                    add_message(NewHistory(0), "user", <<TextBlock("input")>>,
                                NoUsage),
                    "assistant", <<TextBlock("answer")>>,
                    [input_tokens |-> 10, cache_read_input_tokens |-> 0,
                     cache_creation_input_tokens |-> 0, output_tokens |-> 5]),
                "user", <<TextBlock("input")>>, NoUsage) }
    /\ pc = "truncate"
    /\ tool_calls = <<>>
    /\ calls = 0
    /\ errored = FALSE
    /\ pass_len = 0
    /\ pass_pairs = 0
    /\ pass_raised = FALSE
    /\ response = NoResponse
    /\ run_result = Running
    /\ request = NoRequest
    /\ run_calls = 0
    /\ DispatcherAtRest
    /\ RunAtRest
    /\ CodingAtRest

ParamsNext == TruncateCall

SpecParams == ParamsInit /\ [][ParamsNext]_vars

(***************************************************************************)
(* execute_tools (utils/tool_util.py): one task per call, finishing in any *)
(* order when parallel, one after the other when not.                      *)
(***************************************************************************)
\* The ids of a batch of n calls: distinct, and in one of two orders.
BatchIds(n) ==
    { [i \in 1..n |-> 100 + i], [i \in 1..n |-> 100 + n + 1 - i] }

ToolNames == {"think", "missing", "code_execution"}

\* The batches of tool_use blocks: up to MaxBatch calls of distinct ids.
Batches ==
    UNION { { [i \in 1..n |-> [id |-> ids[i], name |-> names[i]]] :
        ids \in BatchIds(n), names \in [1..n -> ToolNames] } :
            n \in 0..MaxBatch }

\* What the execute of a local tool does with a call: it returns a value,
\* or raises an exception, which may be a KeyError of its own.
ToolBehaviours ==
    { Returns(IntValue(1)), Raises("ValueError", "bad input"),
      Raises("KeyError", "'key'") }

\* What may happen in the execute of the tool a call names.
BehavioursOf(call, tool_dict) ==
    IF call.name \in DOMAIN tool_dict /\ tool_dict[call.name].kind # "server"
    THEN ToolBehaviours
    ELSE {NotExecuted}

\* A gather that ends at the first failed task and drops the rest.
gather_until_error(results, order) ==
    LET failed == {i \in 1..Len(order) : IsError(results[i])}
    IN  [i \in {j \in 1..Len(order) : \A k \in failed : j < k} |-> results[i]]

\* asyncio.gather returns the results in the order of its completion.
gather_as_completed(results, order) ==
    [k \in DOMAIN order |-> results[order[k]]]

\* asyncio.gather(*[...]) and the list comprehension of the sequential
\* branch: the results in the order of the awaitables, whatever the order
\* in which they finished.
gather(results, order) ==
    [i \in 1..Len(order) |-> results[i]]

\* The tasks that may finish next: any unfinished one when parallel, the
\* first unfinished one when sequential.
MayFinish(i) ==
    /\ i \in 1..d_started
    /\ i \notin DOMAIN d_results

\* A list comprehension that creates a task for each call without
\* awaiting it.
may_start_unawaited(parallel, started, finished) == TRUE

\* When the next call starts to execute. gather wraps every coroutine
\* in a task at once, and the event loop starts the tasks in the order of
\* the list, whatever the earlier ones do; the list comprehension awaits
\* the result of each call before it makes the coroutine of the next.
may_start(parallel, started, finished) ==
    parallel \/ \A j \in 1..started : j \in finished

DispatchInit ==
    /\ d_pc = "idle"
    /\ d_calls \in Batches
    /\ d_parallel \in BOOLEAN
    /\ d_results = <<>>
    /\ d_order = <<>>
    /\ d_behaviours = <<>>
    /\ d_returned = <<>>
    /\ d_started = 0
    /\ AgentAtRest
    /\ CodingAtRest
    /\ RunAtRest

\* execute_tools is called: the coroutines of the calls are created.
ExecuteToolsCalled ==
    /\ d_pc = "idle"
    /\ d_pc' = "running"
    /\ UNCHANGED <<d_calls, d_parallel, d_results, d_order, d_behaviours,
                   d_returned, d_started>>
    /\ UNCHANGED <<agentVars, runVars, codingVars>>

\* The next call of the list starts to execute.
TaskStarts ==
    /\ d_pc = "running"
    /\ d_started < Len(d_calls)
    /\ may_start(d_parallel, d_started, DOMAIN d_results)
    /\ d_started' = d_started + 1
    /\ UNCHANGED <<d_pc, d_calls, d_parallel, d_results, d_order, d_behaviours,
                   d_returned>>
    /\ UNCHANGED <<agentVars, runVars, codingVars>>

\* The task of call i finishes: _execute_single_tool returns its result.
TaskFinishes ==
    /\ d_pc = "running"
    /\ \E i \in DOMAIN d_calls :
       \E behaviour \in BehavioursOf(d_calls[i], ToolDict(tools)) :
          /\ MayFinish(i)
          /\ d_results' =
                 (i :> execute_single_tool(d_calls[i], ToolDict(tools), behaviour))
                 @@ d_results
          /\ d_order' = Append(d_order, i)
          /\ d_behaviours' = (i :> behaviour) @@ d_behaviours
    /\ UNCHANGED <<d_pc, d_calls, d_parallel, d_returned, d_started>>
    /\ UNCHANGED <<agentVars, runVars, codingVars>>

\* Every task has finished: execute_tools returns the list of results.
ExecuteToolsReturns ==
    /\ d_pc = "running"
    /\ DOMAIN d_results = DOMAIN d_calls
    /\ d_returned' = gather(d_results, d_order)
    /\ d_pc' = "returned"
    /\ UNCHANGED <<d_calls, d_parallel, d_results, d_order, d_behaviours,
                   d_started>>
    /\ UNCHANGED <<agentVars, runVars, codingVars>>

DispatchNext ==
    \/ ExecuteToolsCalled
    \/ TaskStarts
    \/ TaskFinishes
    \/ ExecuteToolsReturns

SpecDispatch == DispatchInit /\ [][DispatchNext]_vars

(***************************************************************************)
(* MCP connections (utils/connections.py) and run_async (agent.py).        *)
(***************************************************************************)
\* The entries Agent.mcp_servers may hold.
Configs ==
    { [type |-> "stdio", command |-> TRUE, url |-> FALSE],
      [type |-> "stdio", command |-> FALSE, url |-> FALSE],
      [type |-> "sse", command |-> FALSE, url |-> TRUE],
      [type |-> "sse", command |-> FALSE, url |-> FALSE],
      [type |-> "websocket", command |-> FALSE, url |-> TRUE] }

ServerLists == UNION { [1..n -> Configs] : n \in 0..MaxServers }

\* The names of the tools the server of config i advertises; the servers
\* of one Agent advertise distinct names.
Advertised(i) ==
    << <<"calculator">>, <<"search", "fetch">>, <<"add">>, <<"sub">> >>[((i - 1) % 4) + 1]

\* create_mcp_connection: the class of the connection, or ValueError.
create_mcp_connection(config) ==
    IF config.type = "stdio"
    THEN IF ~config.command THEN "ValueError" ELSE "stdio"
    ELSE IF config.type = "sse"
    THEN IF ~config.url THEN "ValueError" ELSE "sse"
    ELSE "ValueError"

\* How far MCPConnection.__aenter__ gets: the transport context raises on
\* entry, the ClientSession raises on entry, session.initialize raises,
\* or __aenter__ returns.
EnterOutcomes == {"rw_error", "session_error", "init_error", "entered"}

\* MCPConnection.__aenter__ on connection c of class kind.
aenter(c, kind, outcome) ==
    LET c0 == [c EXCEPT !.kind = kind, !.rw_ctx = TRUE, !.aenters = @ + 1]
        c1 == [c0 EXCEPT !.rw = "open", !.session_ctx = TRUE]
        c2 == [c1 EXCEPT !.sess = "open", !.session = TRUE]
    IN  IF outcome = "rw_error" THEN c0
        ELSE IF outcome = "session_error" THEN c1
        ELSE IF outcome = "init_error" THEN [c2 EXCEPT !.handshake_failed = TRUE]
        ELSE [c2 EXCEPT !.entered = TRUE]

\* What the two __aexit__ calls of MCPConnection.__aexit__ do: both
\* return, the one of the session raises an Exception or is cancelled, or
\* the one of the transport raises an Exception.
CloseOutcomes == {"ok", "session_error", "session_cancelled", "rw_error"}

\* MCPConnection.__aexit__: the session context is left first and the
\* transport context after it, inside one try; an Exception is printed, a
\* CancelledError leaves the method; the finally clears the three fields.
aexit(c, outcome) ==
    LET session_left == c.session_ctx
        session_raised ==
            session_left /\ outcome \in {"session_error", "session_cancelled"}
        rw_left == c.rw_ctx /\ ~session_raised
        rw_raised == rw_left /\ outcome = "rw_error"
    IN  [c EXCEPT
            !.aexits = @ + 1,
            !.sess_exits = IF session_left THEN @ + 1 ELSE @,
            !.sess = IF session_left /\ ~session_raised THEN "closed" ELSE @,
            !.rw_exits = IF rw_left THEN @ + 1 ELSE @,
            !.rw = IF rw_left /\ ~rw_raised THEN "closed" ELSE @,
            !.released = @ \o (IF session_left THEN <<"session">> ELSE <<>>)
                           \o (IF rw_left THEN <<"transport">> ELSE <<>>),
            !.close_outcome = outcome,
            !.close_raised =
                IF session_raised /\ outcome = "session_cancelled"
                THEN "CancelledError" ELSE "none",
            !.session = FALSE,
            !.session_ctx = FALSE,
            !.rw_ctx = FALSE]

\* stack.enter_async_context(connection): __aexit__ becomes an exit
\* callback of the stack when __aenter__ has returned.
enter_async_context(st, i, c) == IF c.entered THEN Append(st, i) ELSE st

\* An exit stack that stops unwinding at a callback that raises.
unwind_stops_at_raise(st, raised) ==
    IF raised # "none" THEN <<>> ELSE SubSeq(st, 1, Len(st) - 1)

\* AsyncExitStack.__aexit__ pops the callbacks last in, first out, and
\* goes on with the rest when one of them raises.
unwind(st, raised) == SubSeq(st, 1, Len(st) - 1)

\* An except clause that raises the error of the setup again.
except_reraises == [run_pc |-> "unwind", exit_path |-> "setup_error"]

\* `except Exception` in the for loop of setup_mcp_connections: the error
\* is printed and the loop goes on with the next config.
except_Exception == [run_pc |-> "setup", exit_path |-> "none"]

\* A finally that restores the tool list only when the loop has returned.
finally_restore_on_return(original, current, path) ==
    IF path = "return" THEN original ELSE current

\* The finally of run_async: self.tools = original_tools, on whatever path
\* the try block is left.
finally_restore(original, current, path) == original

\* Tools that are all bound to the connection of the first config.
DiscoveredTools_first_connection(i) ==
    [k \in DOMAIN Advertised(i) |-> MCPTool(Advertised(i)[k], 1)]

\* The tools made from the tool_definitions of the server of config i.
DiscoveredTools(i) == [k \in DOMAIN Advertised(i) |-> MCPTool(Advertised(i)[k], i)]

\* A setup that enters the connections of the run before again.
reused_connections(old, servers) == old

\* setup_mcp_connections makes a new connection object for every config
\* at each call; the connections of the run before are let go.
fresh_connections(old, servers) == [i \in DOMAIN servers |-> NewConnection]

RunInit ==
    /\ OverlapAtRest
    /\ mcp_servers \in ServerLists
    /\ run_pc = "idle"
    /\ cfg_i = 1
    /\ conn = [i \in DOMAIN mcp_servers |-> NewConnection]
    /\ stack = <<>>
    /\ mcp_tools = <<>>
    /\ tools = StaticTools
    /\ original_tools = StaticTools
    /\ exit_path = "none"
    /\ setup_outcome = [i \in DOMAIN mcp_servers |-> "none"]
    /\ invoked = NotInvoked
    /\ prior_run = FALSE
    /\ AgentAtRest
    /\ CodingAtRest
    /\ DispatcherAtRest

\* run_async is called: a new exit stack, the copy of the tool list, and
\* setup_mcp_connections starts with new connections.
RunStart ==
    /\ run_pc \in {"idle", "exited"}
    /\ original_tools' = tools
    /\ conn' = fresh_connections(conn, mcp_servers)
    /\ prior_run' = (prior_run \/ run_pc = "exited")
    /\ stack' = <<>>
    /\ mcp_tools' = <<>>
    /\ setup_outcome' = [i \in DOMAIN mcp_servers |-> "none"]
    /\ cfg_i' = 1
    /\ exit_path' = "none"
    /\ run_pc' = "setup"
    /\ invoked' = NotInvoked
    /\ UNCHANGED <<mcp_servers, tools>>
    /\ UNCHANGED <<agentVars, dispVars, overlapVars, codingVars>>

\* One iteration of the for loop of setup_mcp_connections whose config
\* create_mcp_connection rejects.
SetupRejects ==
    /\ run_pc = "setup"
    /\ cfg_i <= Len(mcp_servers)
    /\ create_mcp_connection(mcp_servers[cfg_i]) = "ValueError"
    /\ setup_outcome' = [setup_outcome EXCEPT ![cfg_i] = "create_error"]
    /\ cfg_i' = cfg_i + 1
    /\ run_pc' = except_Exception.run_pc
    /\ exit_path' = except_Exception.exit_path
    /\ UNCHANGED <<mcp_servers, conn, stack, mcp_tools, tools, original_tools>>
    /\ UNCHANGED <<invoked, prior_run>>
    /\ UNCHANGED <<agentVars, dispVars, overlapVars, codingVars>>

\* One iteration of the for loop whose connection is made but fails to
\* open: __aenter__ raises and the stack registers nothing.
SetupOpenFails ==
    /\ run_pc = "setup"
    /\ cfg_i <= Len(mcp_servers)
    /\ create_mcp_connection(mcp_servers[cfg_i]) # "ValueError"
    /\ \E outcome \in EnterOutcomes \ {"entered"} :
          LET c == aenter(conn[cfg_i],
                           create_mcp_connection(mcp_servers[cfg_i]), outcome)
          IN  /\ conn' = [conn EXCEPT ![cfg_i] = c]
              /\ stack' = enter_async_context(stack, cfg_i, c)
              /\ setup_outcome' = [setup_outcome EXCEPT ![cfg_i] = outcome]
    /\ cfg_i' = cfg_i + 1
    /\ run_pc' = except_Exception.run_pc
    /\ exit_path' = except_Exception.exit_path
    /\ UNCHANGED <<mcp_servers, mcp_tools, tools, original_tools>>
    /\ UNCHANGED <<invoked, prior_run>>
    /\ UNCHANGED <<agentVars, dispVars, overlapVars, codingVars>>

\* One iteration of the for loop whose connection opens and whose
\* list_tools raises.
SetupDiscoveryFails ==
    /\ run_pc = "setup"
    /\ cfg_i <= Len(mcp_servers)
    /\ create_mcp_connection(mcp_servers[cfg_i]) # "ValueError"
    /\ LET c == aenter(conn[cfg_i],
                           create_mcp_connection(mcp_servers[cfg_i]), "entered")
       IN  /\ conn' = [conn EXCEPT ![cfg_i] = c]
           /\ stack' = enter_async_context(stack, cfg_i, c)
    /\ setup_outcome' = [setup_outcome EXCEPT ![cfg_i] = "list_error"]
    /\ cfg_i' = cfg_i + 1
    /\ run_pc' = except_Exception.run_pc
    /\ exit_path' = except_Exception.exit_path
    /\ UNCHANGED <<mcp_servers, mcp_tools, tools, original_tools>>
    /\ UNCHANGED <<invoked, prior_run>>
    /\ UNCHANGED <<agentVars, dispVars, overlapVars, codingVars>>

\* One iteration of the for loop whose connection opens and whose tools
\* are discovered and appended to mcp_tools.
SetupDiscovers ==
    /\ run_pc = "setup"
    /\ cfg_i <= Len(mcp_servers)
    /\ create_mcp_connection(mcp_servers[cfg_i]) # "ValueError"
    /\ LET c == aenter(conn[cfg_i],
                           create_mcp_connection(mcp_servers[cfg_i]), "entered")
       IN  /\ conn' = [conn EXCEPT ![cfg_i] = c]
           /\ stack' = enter_async_context(stack, cfg_i, c)
    /\ mcp_tools' = mcp_tools \o DiscoveredTools(cfg_i)
    /\ setup_outcome' = [setup_outcome EXCEPT ![cfg_i] = "ok"]
    /\ cfg_i' = cfg_i + 1
    /\ UNCHANGED <<mcp_servers, run_pc, tools, original_tools, exit_path>>
    /\ UNCHANGED <<invoked, prior_run>>
    /\ UNCHANGED <<agentVars, dispVars, overlapVars, codingVars>>

\* The task of the run is cancelled while setup_mcp_connections awaits
\* list_tools of an open connection: CancelledError is no Exception, it
\* leaves the for loop and run_async, whose finally restores the tools.
SetupCancelled ==
    /\ run_pc = "setup"
    /\ cfg_i <= Len(mcp_servers)
    /\ create_mcp_connection(mcp_servers[cfg_i]) # "ValueError"
    /\ LET c == aenter(conn[cfg_i],
                           create_mcp_connection(mcp_servers[cfg_i]), "entered")
       IN  /\ conn' = [conn EXCEPT ![cfg_i] = c]
           /\ stack' = enter_async_context(stack, cfg_i, c)
    /\ setup_outcome' = [setup_outcome EXCEPT ![cfg_i] = "cancelled"]
    /\ tools' = finally_restore(original_tools, tools, "cancel")
    /\ exit_path' = "cancel"
    /\ run_pc' = "unwind"
    /\ UNCHANGED <<mcp_servers, cfg_i, mcp_tools, original_tools>>
    /\ UNCHANGED <<invoked, prior_run>>
    /\ UNCHANGED <<agentVars, dispVars, overlapVars, codingVars>>

\* setup_mcp_connections returns mcp_tools, which run_async appends to
\* Agent.tools before it enters _agent_loop.
SetupReturns ==
    /\ run_pc = "setup"
    /\ cfg_i > Len(mcp_servers)
    /\ tools' = tools \o mcp_tools
    /\ run_pc' = "loop"
    /\ UNCHANGED <<mcp_servers, cfg_i, conn, stack, mcp_tools, original_tools,
                   exit_path, setup_outcome>>
    /\ UNCHANGED <<invoked, prior_run>>
    /\ UNCHANGED <<agentVars, dispVars, overlapVars, codingVars>>

\* _agent_loop ends: it returns the final response, a backend call raises,
\* or the task is cancelled; the finally of run_async restores the tools.
LoopEnds ==
    /\ run_pc = "loop"
    /\ exit_path' \in {"return", "error", "cancel"}
    /\ tools' = finally_restore(original_tools, tools, exit_path')
    /\ run_pc' = "unwind"
    /\ invoked' = NotInvoked
    /\ UNCHANGED <<mcp_servers, cfg_i, conn, stack, mcp_tools, original_tools,
                   setup_outcome, prior_run>>
    /\ UNCHANGED <<agentVars, dispVars, overlapVars, codingVars>>

\* One call of the loop of this run: _agent_loop hands a tool_use block
\* of the response to execute_tools with the tool_dict it built from
\* Agent.tools, and appends the result to the History.
LoopInvokesTool ==
    /\ run_pc = "loop"
    /\ \E name \in DOMAIN ToolDict(tools) \cup {"missing"} :
          LET tool_dict == ToolDict(tools)
              call == [id |-> 1, name |-> name]
              known == name \in DOMAIN tool_dict
          IN  \E event \in (IF known THEN EventsOf(tool_dict[name].kind)
                             ELSE {"unknown_name"}) :
                 invoked' =
                     [call |-> call, event |-> event,
                      result |->
                          execute_single_tool(call, tool_dict,
                              IF known THEN ToolExecute(tool_dict[name], event)
                              ELSE NotExecuted)]
    /\ UNCHANGED <<mcp_servers, run_pc, cfg_i, conn, stack, mcp_tools, tools,
                   original_tools, exit_path, setup_outcome, prior_run>>
    /\ UNCHANGED <<agentVars, dispVars, overlapVars, codingVars>>

\* The exit stack calls the __aexit__ of the connection registered last.
CloseConnection ==
    /\ run_pc = "unwind"
    /\ stack # <<>>
    /\ \E outcome \in CloseOutcomes :
          LET i == stack[Len(stack)]
              c == aexit(conn[i], outcome)
          IN  /\ conn' = [conn EXCEPT ![i] = c]
              /\ stack' = unwind(stack, c.close_raised)
    /\ UNCHANGED <<mcp_servers, run_pc, cfg_i, mcp_tools, tools,
                   original_tools, exit_path, setup_outcome>>
    /\ UNCHANGED <<invoked, prior_run>>
    /\ UNCHANGED <<agentVars, dispVars, overlapVars, codingVars>>

\* The exit stack is empty: run_async is left.
RunExits ==
    /\ run_pc = "unwind"
    /\ stack = <<>>
    /\ run_pc' = "exited"
    /\ UNCHANGED <<mcp_servers, cfg_i, conn, stack, mcp_tools, tools,
                   original_tools, exit_path, setup_outcome>>
    /\ UNCHANGED <<invoked, prior_run>>
    /\ UNCHANGED <<agentVars, dispVars, overlapVars, codingVars>>

RunNext ==
    \/ RunStart
    \/ SetupRejects
    \/ SetupOpenFails
    \/ SetupDiscoveryFails
    \/ SetupDiscovers
    \/ SetupCancelled
    \/ SetupReturns
    \/ LoopInvokesTool
    \/ LoopEnds
    \/ CloseConnection
    \/ RunExits

SpecRun == RunInit /\ [][RunNext]_vars

(***************************************************************************)
(* Several run_async tasks of one Agent on one event loop (agent.py        *)
(* 173-185). Each task has its own exit stack, original_tools and          *)
(* connection; Agent.tools is shared. A task gives way to the others at    *)
(* its awaits: in setup_mcp_connections, in _agent_loop and in the unwind  *)
(* of its exit stack.                                                      *)
(***************************************************************************)
\* The Agent has one server, which advertises one tool; the tool a task
\* discovers is bound to the connection of that task.
OverlapServers == <<[type |-> "stdio", command |-> TRUE, url |-> FALSE]>>

OverlapInit ==
    /\ mcp_servers = OverlapServers
    /\ run_pc = "idle"
    /\ cfg_i = 1
    /\ conn = [i \in DOMAIN mcp_servers |-> NewConnection]
    /\ stack = <<>>
    /\ mcp_tools = <<>>
    /\ tools = StaticTools
    /\ original_tools = StaticTools
    /\ exit_path = "none"
    /\ setup_outcome = [i \in DOMAIN mcp_servers |-> "none"]
    /\ invoked = NotInvoked
    /\ prior_run = FALSE
    /\ OverlapAtRest
    /\ AgentAtRest
    /\ CodingAtRest
    /\ DispatcherAtRest

\* What a step of one of the tasks leaves alone besides Agent.tools.
overlapRest == <<mcp_servers, run_pc, cfg_i, conn, stack, mcp_tools,
                 original_tools, exit_path, setup_outcome, invoked, prior_run>>

\* A task is under way: it has copied the tool list and has not left its
\* exit stack.
UnderWay(r) == o_pc[r] \notin {"idle", "exited"}

\* run_async is called: the task makes its exit stack and copies the tool
\* list, then awaits setup_mcp_connections.
OverlapRunStart(r) ==
    /\ o_pc[r] = "idle"
    /\ o_pc' = [o_pc EXCEPT ![r] = "setup"]
    /\ o_original' = [o_original EXCEPT ![r] = tools]
    /\ o_overlapped' = (o_overlapped \/ \E q \in 1..MaxRuns : UnderWay(q))
    /\ UNCHANGED <<o_conn, tools>>
    /\ UNCHANGED <<agentVars, dispVars, overlapRest, codingVars>>

\* enter_async_context returns in the setup of the task: its connection
\* is open; the task awaits list_tools.
OverlapConnects(r) ==
    /\ o_pc[r] = "setup"
    /\ o_pc' = [o_pc EXCEPT ![r] = "connected"]
    /\ o_conn' = [o_conn EXCEPT ![r] = "open"]
    /\ UNCHANGED <<o_original, o_overlapped, tools>>
    /\ UNCHANGED <<agentVars, dispVars, overlapRest, codingVars>>

\* enter_async_context raises in the setup of the task: the error is
\* printed, setup_mcp_connections returns no tool and the extend adds
\* nothing; the task enters _agent_loop.
OverlapSetupFails(r) ==
    /\ o_pc[r] = "setup"
    /\ o_pc' = [o_pc EXCEPT ![r] = "loop"]
    /\ o_conn' = [o_conn EXCEPT ![r] = "failed"]
    /\ UNCHANGED <<o_original, o_overlapped, tools>>
    /\ UNCHANGED <<agentVars, dispVars, overlapRest, codingVars>>

\* setup_mcp_connections returns and self.tools.extend(mcp_tools) adds
\* the tools of the task to the list Agent.tools holds at that moment;
\* the task enters _agent_loop.
OverlapExtends(r) ==
    /\ o_pc[r] = "connected"
    /\ o_pc' = [o_pc EXCEPT ![r] = "loop"]
    /\ tools' = tools \o [k \in DOMAIN Advertised(1) |->
                              MCPTool(Advertised(1)[k], r)]
    /\ UNCHANGED <<o_original, o_conn, o_overlapped>>
    /\ UNCHANGED <<agentVars, dispVars, overlapRest, codingVars>>

\* _agent_loop of the task returns, raises or is cancelled, and the
\* finally of run_async assigns the copy of the task to Agent.tools.
OverlapLoopEnds(r) ==
    /\ o_pc[r] = "loop"
    /\ o_pc' = [o_pc EXCEPT ![r] = "unwind"]
    /\ \E path \in {"return", "error", "cancel"} :
          tools' = finally_restore(o_original[r], tools, path)
    /\ UNCHANGED <<o_original, o_conn, o_overlapped>>
    /\ UNCHANGED <<agentVars, dispVars, overlapRest, codingVars>>

\* The exit stack of the task closes the connection it has entered and
\* the task ends.
OverlapCloses(r) ==
    /\ o_pc[r] = "unwind"
    /\ o_pc' = [o_pc EXCEPT ![r] = "exited"]
    /\ o_conn' = [o_conn EXCEPT ![r] = IF @ = "open" THEN "closed" ELSE @]
    /\ UNCHANGED <<o_original, o_overlapped, tools>>
    /\ UNCHANGED <<agentVars, dispVars, overlapRest, codingVars>>

OverlapNext ==
    \E r \in 1..MaxRuns :
        \/ OverlapRunStart(r)
        \/ OverlapConnects(r)
        \/ OverlapSetupFails(r)
        \/ OverlapExtends(r)
        \/ OverlapLoopEnds(r)
        \/ OverlapCloses(r)

SpecOverlap == OverlapInit /\ [][OverlapNext]_vars

(***************************************************************************)
(* Claims about the History of an Agent, checked under Spec.               *)
(***************************************************************************)
RECURSIVE SumCosts(_)
SumCosts(ts) ==
    IF ts = <<>> THEN 0 ELSE ts[1][1] + ts[1][2] + SumCosts(Tail(ts))

AssistantTurns(ms) ==
    Cardinality({i \in DOMAIN ms : ms[i].role = "assistant"})

\* truncate() has just returned.
TruncateReturned == pc = "request"

\* C2: after truncate() returns, total_tokens is within the budget or
\* fewer than two turns remain.
C2_BudgetOrFewerThanTwo ==
    TruncateReturned =>
        \/ history.total_tokens <= context_window_tokens
        \/ Len(history.messages) < 2

\* C3: the number of message_tokens entries is the number of assistant
\* turns retained.
C3_CostPerAssistantTurn ==
    Len(history.message_tokens) = AssistantTurns(history.messages)

\* C4: total_tokens is the system prompt cost plus the sum of input +
\* output over the retained message_tokens entries.
C4_TotalIsSystemPlusCosts ==
    history.total_tokens = system_token + SumCosts(history.message_tokens)

\* C4 witness: an eviction pass has removed a pair and rewritten the new
\* oldest turn, whose cost entry now differs from the cost first recorded.
C4_Witness ==
    /\ TruncateReturned
    /\ pass_pairs >= 1
    /\ history.message_tokens # <<>>
    /\ history.messages[1] = TRUNCATION_MESSAGE
    /\ history.total_tokens # system_token

\* C5: the turn sequence is empty or its first turn has role user.
C5_FirstTurnIsUser ==
    history.messages = <<>> \/ history.messages[1].role = "user"

\* C6 as stated: immediately after an eviction pass a non-empty History
\* holds an even number of turns.
C6_EvenAfterEviction ==
    (TruncateReturned /\ pass_pairs >= 1 /\ history.messages # <<>>) =>
        Len(history.messages) % 2 = 0

\* C6 amended: an eviction pass removes exactly two turns per removed
\* pair, so the parity of the number of turns is the one truncate() was
\* called with; in an Agent none of whose backend calls failed that number
\* is odd.
C6_ParityKept ==
    pc \in {"trunc_loop", "request"} =>
        /\ Len(history.messages) = pass_len - 2 * pass_pairs
        /\ ~errored => Len(history.messages) % 2 = 1

\* C6 witness: an eviction pass that removed a pair has just returned and
\* turns remain.
C6_Witness ==
    /\ TruncateReturned
    /\ pass_pairs >= 1
    /\ history.messages # <<>>
    /\ ~errored

\* The claims C2, C3 and C5 in the runs of an Agent none of whose backend
\* calls failed.
NoErrorHistory ==
    ~errored =>
        /\ C2_BudgetOrFewerThanTwo
        /\ C3_CostPerAssistantTurn
        /\ C5_FirstTurnIsUser

LastMessage == history.messages[Len(history.messages)]

\* The results of a batch answer its calls one by one.
AnswersCalls(results, cs) ==
    /\ Len(results) = Len(cs)
    /\ \A i \in DOMAIN cs :
          /\ results[i].type = "tool_result"
          /\ results[i].tool_use_id = cs[i].id

\* The positions of the loop and what the run has returned, against the
\* tool_use blocks of the last response.
C12_ReturnsExactlyWithoutToolUse ==
    /\ run_result.kind = "return" =>
          /\ pc = "idle"
          /\ run_result.response = response
          /\ ToolCallsOf(response.content) = <<>>
    /\ (response # NoResponse /\ ToolCallsOf(response.content) = <<>>) =>
          run_result.kind = "return"
    /\ pc = "tools" =>
          /\ run_result = Running
          /\ tool_calls # <<>>
          /\ tool_calls = ToolCallsOf(response.content)
          /\ LastMessage = [role |-> "assistant", content |-> response.content]
    /\ (pc = "truncate" /\ response # NoResponse) =>
          /\ run_result = Running
          /\ LastMessage.role = "user"
          /\ AnswersCalls(LastMessage.content, tool_calls)
          /\ history.messages[Len(history.messages) - 1] =
                 [role |-> "assistant", content |-> response.content]

C18_NoOpWithinBudgetOrShort ==
    [][(/\ pc \in {"truncate", "trunc_loop"}
        /\ \/ history.total_tokens <= context_window_tokens
           \/ Len(history.messages) < 2) =>
            (history' = history /\ pc' \in {"trunc_loop", "request"})]_vars

\* C18 witness: truncate() has returned without a removal from a History
\* of one turn whose total_tokens is over the budget.
C18_Witness ==
    /\ TruncateReturned
    /\ pass_pairs = 0
    /\ pass_len = 1
    /\ Len(history.messages) = 1
    /\ history.total_tokens > context_window_tokens

\* C19: in truncate(), the removal of a pair with its cost entry leaves
\* total_tokens less than or equal to its value just before the removal,
\* for every cost sequence the History can hold.
C19_RemovalNeverIncreasesTotal ==
    (pc = "trunc_loop" /\ TruncateLoopCond(history, context_window_tokens)) =>
        remove_message_pair(history).total_tokens <= history.total_tokens

\* The while loop of truncate() is about to remove a pair.
EvictionStep ==
    pc = "trunc_loop" /\ TruncateLoopCond(history, context_window_tokens)

\* The two turns at the front are a user turn followed by an assistant
\* turn.
FrontIsUserAssistant(h) ==
    /\ Len(h.messages) >= 2
    /\ h.messages[1].role = "user"
    /\ h.messages[2].role = "assistant"

\* C33: every eviction step removes the two turns at the front and
\* nothing else, these are a user turn followed by an assistant turn, and
\* the one cost entry popped is the oldest one, the entry of that
\* assistant turn.
C33_EvictsFrontUserAssistantPair ==
    EvictionStep =>
        /\ FrontIsUserAssistant(history)
        /\ remove_message_pair(history).messages =
              SubSeq(history.messages, 3, Len(history.messages))
        /\ remove_message_pair(history).message_tokens =
              Tail(history.message_tokens)

\* The History after a removal whose new oldest turn is rewritten: the
\* notice at the front, the oldest cost entry with the cost of the notice
\* and its own output cost, total_tokens moved by the difference of the
\* input costs, and the other turns and entries as they were.
RewrittenAfterRemoval(before, after) ==
    LET removed == before.message_tokens[1]
        original == before.message_tokens[2]
    IN  /\ after.messages =
              <<TRUNCATION_MESSAGE>>
              \o SubSeq(before.messages, 4, Len(before.messages))
        /\ after.message_tokens =
              <<<<TRUNCATION_NOTICE_TOKENS, original[2]>>>>
              \o SubSeq(before.message_tokens, 3, Len(before.message_tokens))
        /\ after.total_tokens =
              before.total_tokens - (removed[1] + removed[2])
              + (TRUNCATION_NOTICE_TOKENS - original[1])

\* C34 as stated: whenever an iteration of truncate() removes a pair and
\* turns remain, the new oldest turn is the notice, the oldest cost entry
\* is (25, its output cost) and total_tokens has moved by 25 minus its
\* input cost.
C34_RewriteWheneverTurnsRemain ==
    [][(TruncateIter /\ Len(history.messages) > 2) =>
          /\ Len(history.message_tokens) >= 2
          /\ RewrittenAfterRemoval(history, history')]_vars

\* C34 amended: the rewrite happens whenever a pair was removed and both
\* turns and cost entries remain; when no cost entry remains, the turns
\* that remain are left as they are and nothing is charged.
C34_RewriteWhenEntriesRemain ==
    [][TruncateIter =>
          IF Len(history.messages) > 2 /\ Len(history.message_tokens) >= 2
          THEN RewrittenAfterRemoval(history, history')
          ELSE /\ history'.messages =
                     SubSeq(history.messages, 3, Len(history.messages))
               /\ history'.message_tokens = Tail(history.message_tokens)
               /\ history'.total_tokens =
                     history.total_tokens
                     - (history.message_tokens[1][1]
                        + history.message_tokens[1][2])]_vars

\* C34 witness: an eviction pass has removed a pair from five turns or
\* more and rewritten the new oldest turn, whose entry holds the cost of
\* the notice and an output cost.
C34_Witness ==
    /\ pc = "trunc_loop"
    /\ pass_pairs = 1
    /\ pass_len >= 5
    /\ history.messages[1] = TRUNCATION_MESSAGE
    /\ history.message_tokens # <<>>
    /\ history.message_tokens[1][1] = TRUNCATION_NOTICE_TOKENS
    /\ history.message_tokens[1][2] > 0

\* The turns of the request at hand.
RenderedTurns == request["messages"]

\* The content of a turn answers the tool_use blocks cs one by one: as
\* many tool_result blocks, with the ids of the calls in their order.
ResultsFor(content, cs) ==
    /\ Len(content) = Len(cs)
    /\ \A k \in DOMAIN cs :
          /\ content[k].type = "tool_result"
          /\ content[k].tool_use_id = cs[k].id

\* C35: in the messages of every request, an assistant turn that holds
\* tool_use blocks is followed at once by a user turn that holds one
\* tool_result block for each of them, in their order.
C35_ToolRequestsAnswered ==
    request # NoRequest =>
        \A i \in DOMAIN RenderedTurns :
            (/\ RenderedTurns[i].role = "assistant"
             /\ ToolCallsOf(RenderedTurns[i].content) # <<>>) =>
                /\ i < Len(RenderedTurns)
                /\ RenderedTurns[i + 1].role = "user"
                /\ ResultsFor(RenderedTurns[i + 1].content,
                              ToolCallsOf(RenderedTurns[i].content))

\* C39: in the messages of every request, each tool_result block stands
\* in a turn right after an assistant turn that holds the tool_use block
\* of the same id.
C39_NoOrphanToolResult ==
    request # NoRequest =>
        \A i \in DOMAIN RenderedTurns :
            \A k \in DOMAIN RenderedTurns[i].content :
                RenderedTurns[i].content[k].type = "tool_result" =>
                    /\ i > 1
                    /\ RenderedTurns[i - 1].role = "assistant"
                    /\ \E j \in DOMAIN RenderedTurns[i - 1].content :
                          /\ RenderedTurns[i - 1].content[j].type = "tool_use"
                          /\ RenderedTurns[i - 1].content[j].id =
                                RenderedTurns[i].content[k].tool_use_id

\* C37: truncate() returns, after at most one iteration for every two
\* turns of the History it was called with, also when a rewrite puts
\* total_tokens over the budget again.
C37_TruncateTerminates ==
    /\ [](pc \in {"trunc_loop", "request"} => 2 * pass_pairs <= pass_len)
    /\ (pc = "trunc_loop" ~> pc = "request")

\* C37 witness: truncate() has returned from a pass in which a rewrite
\* put total_tokens over the budget that the removal before it had met,
\* and the loop went on to remove another pair.
C37_Witness ==
    /\ TruncateReturned
    /\ pass_raised
    /\ pass_pairs >= 2

\* C38: no step of truncate() in the loop removes or changes the turn
\* appended last: from the call to the return, the History keeps a turn
\* and its last turn stays what it was.
C38_LastTurnKept ==
    [][(pc \in {"truncate", "trunc_loop"}) =>
          (/\ history'.messages # <<>>
           /\ history'.messages[Len(history'.messages)] = LastMessage)]_vars

\* C38 witness: truncate() has returned from a pass that removed every
\* turn but the last one, which is the user turn the loop had appended.
C38_Witness ==
    /\ TruncateReturned
    /\ pass_pairs >= 1
    /\ Len(history.messages) = 1
    /\ LastMessage.role = "user"
    /\ LastMessage # TRUNCATION_MESSAGE

\* The cumulative input a usage record reports.
CumulativeInput(usage) ==
    usage.input_tokens + usage.cache_read_input_tokens
    + usage.cache_creation_input_tokens

\* A step that appends one turn.
TurnAppended ==
    /\ Len(history'.messages) = Len(history.messages) + 1
    /\ SubSeq(history'.messages, 1, Len(history.messages)) = history.messages

\* C20: the append of an assistant turn with its usage pushes exactly one
\* cost entry, (cumulative input - previous total, output), and leaves
\* total_tokens = cumulative input + output; the append of a user turn
\* changes neither the cost entries nor total_tokens.
C20_AppendUpdatesCosts ==
    [][TurnAppended =>
          LET turn == history'.messages[Len(history'.messages)]
              usage == response'.usage
          IN  IF turn.role = "assistant"
              THEN /\ turn.content = response'.content
                   /\ history'.message_tokens =
                          Append(history.message_tokens,
                                 <<CumulativeInput(usage) - history.total_tokens,
                                   usage.output_tokens>>)
                   /\ history'.total_tokens =
                          CumulativeInput(usage) + usage.output_tokens
              ELSE /\ history'.message_tokens = history.message_tokens
                   /\ history'.total_tokens = history.total_tokens]_vars

\* C20 witness: an assistant turn whose usage counts cache tokens has
\* been appended to a History that held cost entries already, and a user
\* turn with tool results has been appended behind it.
C20_Witness ==
    /\ pc = "truncate"
    /\ response # NoResponse
    /\ response.usage.cache_read_input_tokens > 0
    /\ Len(history.message_tokens) >= 2
    /\ history.total_tokens =
           CumulativeInput(response.usage) + response.usage.output_tokens

\* The scenario of a History with budget 30 and a system prompt of cost 0
\* whose assistant turns arrive with the cumulative inputs 10, 25 and 40
\* and the output 5 each.
InScenario == context_window_tokens = 30 /\ system_token = 0

ScenarioUsage(k) ==
    [input_tokens |-> <<10, 25, 40>>[k], cache_read_input_tokens |-> 0,
     cache_creation_input_tokens |-> 0, output_tokens |-> 5]

ScenarioCosts(n) == [i \in 1..n |-> <<10, 5>>]

\* The k-th assistant turn of the scenario is appended in this step.
ScenarioAppend(k) ==
    /\ InScenario
    /\ history.message_tokens = ScenarioCosts(k - 1)
    /\ history.total_tokens = 15 * (k - 1)
    /\ calls' = calls + 1
    /\ response' # NoResponse
    /\ response'.usage = ScenarioUsage(k)
    /\ history' # history

\* truncate() is called on the History of the scenario after its third
\* assistant turn.
ScenarioOverBudget ==
    /\ InScenario
    /\ pc = "truncate"
    /\ history.message_tokens = ScenarioCosts(3)
    /\ history.total_tokens = 45

\* truncate() has returned from that call.
ScenarioEvicted ==
    /\ TruncateReturned
    /\ pass_pairs = 2
    /\ Len(history.messages) = pass_len - 4
    /\ history.total_tokens = 30
    /\ Len(history.message_tokens) = 1
    /\ history.messages[1] = TRUNCATION_MESSAGE

\* C21: with budget 30 and initial total 0, the assistant turns with the
\* cumulative inputs 10, 25 and 40 and output 5 each get the cost entry
\* (10, 5) and give the totals 15, 30 and 45; truncate() at total 30 is a
\* no-op; truncate() at total 45 removes exactly two pairs and returns
\* with total 30, one cost entry and the notice as the oldest turn.
C21_BudgetScenario ==
    /\ [][\A k \in 1..3 :
             ScenarioAppend(k) =>
                 /\ history'.message_tokens = ScenarioCosts(k)
                 /\ history'.total_tokens = 15 * k]_vars
    /\ [][(InScenario /\ pc = "truncate" /\ history.total_tokens = 30) =>
              (history' = history /\ pc' = "request")]_vars
    /\ ScenarioOverBudget ~> ScenarioEvicted

\* C21 witness: truncate() has returned from the call at total 45 of the
\* scenario, which the third response of the Agent brought about.
C21_Witness ==
    /\ InScenario
    /\ calls = 3
    /\ response # NoResponse /\ response.usage = ScenarioUsage(3)
    /\ pass_len = 7
    /\ ScenarioEvicted

\* C22: the messages of every request built from a History that holds
\* turns, with caching enabled, are the turns of the History in their
\* order, with the cache_control marker on every block of the last turn
\* and on no block of an earlier turn, also when earlier requests were
\* built and turns were appended since.
C22_MarkerOnFinalTurnOnly ==
    (pc = "request" /\ history.messages # <<>>) =>
        LET rendered == request.messages
        IN  /\ Len(rendered) = Len(history.messages)
            /\ \A i \in DOMAIN rendered :
                  /\ rendered[i].role = history.messages[i].role
                  /\ Len(rendered[i].content) = Len(history.messages[i].content)
                  /\ \A k \in DOMAIN rendered[i].content :
                        IsMarked(rendered[i].content[k]) <=> i = Len(rendered)

\* C22 witness: the third request of an Agent is built; its History holds
\* five turns or more, the last one the two tool results of a dispatch.
C22_Witness ==
    /\ pc = "request"
    /\ calls = 2
    /\ Len(request.messages) >= 5
    /\ Len(LastMessage.content) = 2
    /\ IsMarked(request.messages[Len(request.messages)].content[2])
    /\ ~IsMarked(request.messages[2].content[1])

\* C23: the step that renders the History for a request leaves the
\* turns, their blocks, the cost entries and total_tokens as they were,
\* and no block of the History ever carries the cache_control marker.
C23_RenderLeavesHistory ==
    /\ [][(pc # "request" /\ pc' = "request") => history' = history]_vars
    /\ [](\A i \in DOMAIN history.messages :
             \A k \in DOMAIN history.messages[i].content :
                 ~IsMarked(history.messages[i].content[k]))

\* C23 witness: a request has been built whose last turn is marked while
\* the same turn of the History, which holds cost entries, is not.
C23_Witness ==
    /\ pc = "request"
    /\ calls >= 1
    /\ history.message_tokens # <<>>
    /\ IsMarked(request.messages[Len(request.messages)].content[1])
    /\ ~IsMarked(LastMessage.content[1])

BackendError == [kind |-> "raise", exc |-> "BackendError"]

\* C17: a backend call that fails ends the run with that error: the step
\* of a failed call (a call counted and no turn appended) leaves the loop
\* with the error as the result of the run, a run that has raised is over,
\* and the next step after it is the start of another run, not a backend
\* call and not a dispatch.
C17_BackendErrorEndsRun ==
    /\ [](run_result.kind = "raise" => pc = "idle")
    /\ [][(calls' # calls /\ history' = history) =>
              (pc' = "idle" /\ run_result' = BackendError)]_vars
    /\ [][run_result.kind = "raise" =>
              (run_result' = Running /\ pc' = "truncate" /\ calls' = calls)]_vars

\* C17 witness: the second backend call of a run, made after a dispatch,
\* has failed and the run has ended with the error.
C17_Witness ==
    /\ run_result = BackendError
    /\ pc = "idle"
    /\ calls = 2
    /\ response # NoResponse
    /\ LastMessage.content[1].type = "tool_result"

\* C29: the loop has a maximum number of iterations that the caller can
\* configure, here to one less than the number of responses the backend
\* gives: a run that has made that many round trips sends no further
\* request, even when every response requested tools.
C29_RoundTripsUnderMaximum ==
    pc = "request" => run_calls < MaxCalls - 1

\* C24: a connection is opened at most once and closed at most once, and
\* an open connection, one whose session is set, has never been closed:
\* after its close it is not open again, in this run or in a later one,
\* and a later run opens connections that were never entered before.
C24_ConnectionNeverReentered ==
    \A i \in DOMAIN conn :
        /\ conn[i].aenters <= 1
        /\ conn[i].aexits <= 1
        /\ conn[i].session => conn[i].aexits = 0
        /\ conn[i].aexits = 1 => conn[i].aenters = 1 /\ ~conn[i].session

\* C24 witness: in a run after one that has ended and closed its
\* connections, the Agent holds an open connection again.
C24_Witness ==
    /\ prior_run
    /\ run_pc = "loop"
    /\ \E i \in DOMAIN conn :
          conn[i].session /\ conn[i].entered /\ conn[i].aenters = 1

\* The connection of config i is open: __aenter__ has returned, the
\* session is set and __aexit__ has not been called.
IsOpen(i) ==
    /\ i \in DOMAIN conn
    /\ conn[i].entered
    /\ conn[i].session
    /\ conn[i].aexits = 0

\* C40: in the runs of one Agent that follow one another, every remote
\* tool in Agent.tools is bound to a connection that is open, and so is
\* every remote tool the loop invokes: the tools are added after their
\* connections have opened and taken away before any of them is closed.
C40_RemoteToolsWhileOpen ==
    /\ \A i \in DOMAIN tools :
          tools[i].kind = "mcp" => IsOpen(tools[i].connection)
    /\ (invoked # NotInvoked /\ invoked.call.name \in DOMAIN ToolDict(tools)) =>
          LET tool == ToolDict(tools)[invoked.call.name]
          IN  tool.kind = "mcp" => IsOpen(tool.connection)

\* C40 witness: in a run with two servers, of which the first did not
\* open, the loop has invoked a remote tool of the second, whose
\* connection is open, after an earlier run has ended.
C40_Witness ==
    /\ prior_run
    /\ run_pc = "loop"
    /\ Len(conn) = 2
    /\ ~IsOpen(1)
    /\ invoked # NotInvoked
    /\ invoked.call.name \in DOMAIN ToolDict(tools)
    /\ ToolDict(tools)[invoked.call.name].kind = "mcp"
    /\ ToolDict(tools)[invoked.call.name].connection = 2
    /\ IsOpen(2)

\* C25: the registry the loop passes to execute_tools has no entry for a
\* server tool, a tool without an execute method.
C25_NoServerToolInRegistry ==
    pc = "tools" =>
        \A n \in DOMAIN ToolDict(tools) : ToolDict(tools)[n].kind # "server"

(***************************************************************************)
(* Claims about overlapping runs, checked under SpecOverlap.               *)
(***************************************************************************)
AllEnded == \A r \in 1..MaxRuns : o_pc[r] = "exited"

\* The remote tools of a tool list.
RemoteTools(ts) == {ts[i] : i \in {j \in DOMAIN ts : ts[j].kind = "mcp"}}

\* C30: when every run has ended, Agent.tools is the copy one of the runs
\* took at its start, and every remote tool it holds is bound to a
\* connection that is closed; it is the static list when no run started
\* while another one was under way; with overlapping runs it can still
\* hold a remote tool.
C30_RegistryAfterOverlappingRuns ==
    AllEnded =>
        /\ \E r \in 1..MaxRuns : tools = o_original[r]
        /\ \A t \in RemoteTools(tools) : o_conn[t.connection] = "closed"
        /\ ~o_overlapped => tools = StaticTools

\* C30 witness: two runs overlapped, both have ended, and Agent.tools
\* differs from the static list: it holds the remote tool of the first
\* run, whose connection is closed.
C30_Witness ==
    /\ AllEnded
    /\ o_overlapped
    /\ tools # StaticTools
    /\ \E t \in RemoteTools(tools) : o_conn[t.connection] = "closed"

(***************************************************************************)
(* Claims about the request of an Agent, checked under SpecParams.         *)
(***************************************************************************)
\* C27: the request carries, for every key of message_params other than
\* extra_headers, the value of the caller, whatever the computed default
\* of that key is, model, system, messages and tools included; it carries
\* no other key than those, the defaults and extra_headers.
C27_CallerOverridesDefaults ==
    request # NoRequest =>
        /\ \A k \in DOMAIN message_params \ {"extra_headers"} :
              request[k] = message_params[k]
        /\ DOMAIN request =
              DOMAIN message_params
              \cup {"model", "max_tokens", "temperature", "system", "messages",
                    "tools", "extra_headers"}

\* C27 witness: a request is built for a caller who overrides model,
\* system, messages and tools.
C27_Witness ==
    /\ request # NoRequest
    /\ {"model", "system", "messages", "tools"} \subseteq DOMAIN message_params
    /\ request["model"] # ModelConfig.model
    /\ request["messages"] = OverrideValue("messages")
    /\ request["messages"] # format_for_api(history, enable_caching)

\* The extra_headers of the caller, the empty map when there are none.
CallerHeaders ==
    IF "extra_headers" \in DOMAIN message_params
    THEN message_params["extra_headers"]
    ELSE [k \in {} |-> ""]

\* C28: the extra_headers of the request hold the keys of the default
\* headers and the keys of the caller, each key of the caller with the
\* value of the caller and every other key with its default.
C28_HeadersMergedKeyByKey ==
    request # NoRequest =>
        LET sent == request["extra_headers"]
        IN  /\ DOMAIN sent = DOMAIN default_headers \cup DOMAIN CallerHeaders
            /\ \A k \in DOMAIN sent :
                  sent[k] = IF k \in DOMAIN CallerHeaders
                            THEN CallerHeaders[k] ELSE default_headers[k]

\* C28 witness: a request is built for a caller whose extra_headers hold
\* a key of their own only; the default header is sent with it.
C28_Witness ==
    /\ request # NoRequest
    /\ DOMAIN CallerHeaders = {"X-Test"}
    /\ request["extra_headers"]["X-Test"] = "combined"
    /\ request["extra_headers"]["anthropic-beta"] = "code-execution-2025-05-22"

(***************************************************************************)
(* Claims about execute_tools, checked under SpecDispatch.                 *)
(***************************************************************************)
\* C1: execute_tools returns one result per call, and the result at
\* position i carries the id of call i, whatever the order in which the
\* tasks finished.
C1_ResultsInRequestOrder ==
    d_pc = "returned" =>
        /\ Len(d_returned) = Len(d_calls)
        /\ \A i \in DOMAIN d_calls : d_returned[i].tool_use_id = d_calls[i].id

\* C1 witness: a parallel batch has returned whose last call finished
\* first.
C1_Witness ==
    /\ d_pc = "returned"
    /\ d_parallel
    /\ Len(d_calls) >= 2
    /\ d_order[1] = Len(d_calls)

NotFound(name) == <<"Tool '", name, "' not found">>

\* C13: the result of a call whose name is no key of the registry has
\* is_error true and the content "Tool '<name>' not found" with the
\* requested name, and carries the id of the call.
C13_UnknownNameNotFound ==
    \A i \in DOMAIN d_results :
        d_calls[i].name \notin DOMAIN ToolDict(tools) =>
            /\ IsError(d_results[i])
            /\ d_results[i].content = NotFound(d_calls[i].name)
            /\ d_results[i].tool_use_id = d_calls[i].id

\* C13 witness: a batch has returned whose second call names a tool that
\* is not in the registry.
C13_Witness ==
    /\ d_pc = "returned"
    /\ Len(d_calls) >= 2
    /\ d_calls[2].name = "missing"
    /\ d_returned[2].content = NotFound("missing")

\* C14: the result of a call whose tool is in the registry and whose
\* execute raises, a KeyError included, has is_error true and the content
\* "Error executing tool: <message>"; the not found result is given only
\* to a name that is no key of the registry.
C14_NotFoundOnlyForAbsentName ==
    \A i \in DOMAIN d_results :
        /\ (d_calls[i].name \in DOMAIN ToolDict(tools)
            /\ d_behaviours[i].kind = "raise") =>
                /\ IsError(d_results[i])
                /\ d_results[i].content =
                       <<"Error executing tool: ", d_behaviours[i].msg>>
        /\ d_results[i].content = NotFound(d_calls[i].name) =>
                d_calls[i].name \notin DOMAIN ToolDict(tools)

\* C15: execute_tools returns for every batch, and the list it returns
\* holds at each position the result _execute_single_tool gives for that
\* call and what its own execute did, whatever the other calls of the
\* batch were and did; while it runs, a task can start or finish, or it
\* can return.
C15_FailuresIsolated ==
    /\ d_pc = "running" =>
          ENABLED (TaskStarts \/ TaskFinishes \/ ExecuteToolsReturns)
    /\ d_pc = "returned" =>
          /\ DOMAIN d_returned = DOMAIN d_calls
          /\ \A i \in DOMAIN d_calls :
                d_returned[i] =
                    execute_single_tool(d_calls[i], ToolDict(tools),
                                        d_behaviours[i])

\* C15 witness: a batch has returned whose first call succeeded with the
\* value 1, whose second call names a missing tool and whose third call
\* failed in its execute.
C15_Witness ==
    /\ d_pc = "returned"
    /\ Len(d_calls) = 3
    /\ d_returned[1].content = <<"1">> /\ ~IsError(d_returned[1])
    /\ d_returned[2].content = NotFound("missing") /\ IsError(d_returned[2])
    /\ d_behaviours[3].kind = "raise" /\ IsError(d_returned[3])

\* C26: with parallel false the calls start in the order of the list,
\* each one only after every call before it has given its result, so at
\* most one call is under way and the results come in the order of the
\* list; in both modes the list returned holds at each position what
\* _execute_single_tool gives for that call and what its execute did.
C26_SequentialInOrder ==
    /\ ~d_parallel =>
          /\ d_started <= Len(d_order) + 1
          /\ \A i \in 1..d_started : \A j \in 1..(i - 1) : j \in DOMAIN d_results
          /\ d_order = [k \in 1..Len(d_order) |-> k]
    /\ d_pc = "returned" =>
          \A i \in DOMAIN d_calls :
              /\ d_results[i] =
                    execute_single_tool(d_calls[i], ToolDict(tools),
                                        d_behaviours[i])
              /\ d_returned[i] = d_results[i]

\* C26 witness: a sequential batch of three calls has returned one
\* success, one not found and one execution error.
C26_Witness ==
    /\ ~d_parallel
    /\ d_pc = "returned"
    /\ d_started = 3
    /\ \E i, j, k \in DOMAIN d_calls :
          /\ ~IsError(d_returned[i])
          /\ d_returned[j].content = NotFound(d_calls[j].name)
          /\ d_behaviours[k].kind = "raise" /\ IsError(d_returned[k])

(***************************************************************************)
(* Claims about the connections of a run, checked under SpecRun.           *)
(***************************************************************************)
Range(f) == {f[i] : i \in DOMAIN f}

\* C7: a connection whose session.initialize failed after its transport
\* channel was opened has had that channel closed exactly once when the
\* failure has left __aenter__.
C7_TransportClosedAfterFailedHandshake ==
    \A i \in DOMAIN conn :
        (conn[i].handshake_failed /\ conn[i].rw # "none") =>
            conn[i].rw_exits = 1

\* C8: the __aexit__ of an open connection that is not cancelled releases
\* the session and then the transport channel, the transport channel also
\* when the release of the session fails, and raises nothing.
C8_CloseReleasesSessionThenTransport ==
    \A i \in DOMAIN conn :
        (/\ conn[i].entered
         /\ conn[i].aexits >= 1
         /\ conn[i].close_outcome # "session_cancelled") =>
            /\ conn[i].released = <<"session", "transport">>
            /\ conn[i].close_raised = "none"

\* C9: a connection that was opened during the setup of a run is not
\* closed while the run is in its setup or its loop, and its __aexit__ has
\* been called exactly once when the run has exited, however the run ended
\* and whatever the __aexit__ of the other connections did.
C9_OpenedConnectionsClosedOnce ==
    \A i \in DOMAIN conn :
        /\ run_pc \in {"setup", "loop"} => conn[i].aexits = 0
        /\ (run_pc = "exited" /\ conn[i].entered) => conn[i].aexits = 1
        /\ conn[i].aexits <= 1

\* C9 witness: a cancelled run has exited with two opened connections, and
\* the close of the one unwound first was cancelled in its session.
C9_Witness ==
    /\ run_pc = "exited"
    /\ exit_path = "cancel"
    /\ \E i, j \in DOMAIN conn :
          /\ i < j
          /\ conn[i].entered /\ conn[j].entered
          /\ conn[j].close_raised = "CancelledError"
          /\ conn[i].aexits = 1

SetupFailed(i) ==
    setup_outcome[i] \in
        {"create_error", "rw_error", "session_error", "init_error", "list_error"}

\* C10: whatever configs fail in the setup, the setup completes and the
\* run enters its loop with a tool list that holds no tool of a failed
\* config and, for every other config, the tools its server advertises,
\* which the name-to-tool dict of the loop maps from their names.
C10_FailedBackendsSkipped ==
    /\ exit_path # "setup_error"
    /\ run_pc = "loop" =>
          \A i \in DOMAIN mcp_servers :
              /\ ~SetupFailed(i) => setup_outcome[i] = "ok"
              /\ SetupFailed(i) =>
                    \A t \in Range(tools) : t.connection # i
              /\ setup_outcome[i] = "ok" =>
                    \A k \in DOMAIN Advertised(i) :
                        LET t == MCPTool(Advertised(i)[k], i)
                        IN  /\ t \in Range(tools)
                            /\ ToolDict(tools)[t.name] = t

\* C10 witness: the loop is entered after the setup of the first config
\* failed and the tools of the second one were discovered.
C10_Witness ==
    /\ run_pc = "loop"
    /\ Len(mcp_servers) >= 2
    /\ SetupFailed(1)
    /\ setup_outcome[2] = "ok"
    /\ MCPTool(Advertised(2)[1], 2) \in Range(tools)

\* C11: when a run has left its try block, by a return, by an error or by
\* a cancellation, Agent.tools is again the static tool list the run
\* started with, and holds no tool of an MCP server.
C11_ToolsRestoredOnEveryExit ==
    run_pc \in {"unwind", "exited"} =>
        /\ tools = original_tools
        /\ tools = StaticTools
        /\ \A t \in Range(tools) : t.kind # "mcp"

\* C11 witness: a run that discovered MCP tools and entered its loop with
\* them has exited by an error.
C11_Witness ==
    /\ run_pc = "exited"
    /\ exit_path = "error"
    /\ mcp_tools # <<>>
    /\ tools = StaticTools

\* The events that are errors of the execution of a tool.
ExecutionErrors ==
    {"bad_arguments", "missing_resource", "io_fault", "transport_fault",
     "unknown_name", "no_execute"}

\* C16: the result of a call that met an execution error, be it bad
\* arguments, a missing resource in a local tool, a transport fault in the
\* call of a remote tool or an unknown name, is appended to the History
\* with is_error true.
C16_ExecutionErrorsFlagged ==
    invoked.event \in ExecutionErrors => IsError(invoked.result)

(***************************************************************************)
(* The hook that checks Bash commands before the autonomous coding agent   *)
(* runs them (src/autonomous-coding/security.py).  A command string is a   *)
(* sequence of lexemes: a one-character string for each blank, quote,      *)
(* slash, dot, ampersand, bar and semicolon, and one string for each       *)
(* maximal run of other characters.                                        *)
(***************************************************************************)

ALLOWED_COMMANDS ==
    {<<w>> : w \in {"ls", "cat", "head", "tail", "wc", "grep", "cp", "mkdir",
                    "chmod", "pwd", "npm", "node", "git", "ps", "lsof",
                    "sleep", "pkill", "init.sh"}}

COMMANDS_NEEDING_EXTRA_VALIDATION == {<<"pkill">>, <<"chmod">>, <<"init.sh">>}

\* The characters str.strip, \s and shlex take for blanks.
Whitespace == {" "}

\* The characters the two regular expressions and shlex take for quotes.
Quotes == {"'", "\""}

\* The runs of characters that begin with "-".
DashWords == {"-x", "-f", "-R"}

\* The runs of characters that hold "=" after their first character.
AssignWords == {"A=1"}

\* The runs of characters that match [ugoa]*\+x.
PlusXWords == {"+x", "u+x", "g+x", "o+x", "a+x", "ug+x", "ugo+x"}

RECURSIVE lstrip(_)
lstrip(text) ==
    IF text # <<>> /\ Head(text) \in Whitespace THEN lstrip(Tail(text))
    ELSE text

RECURSIVE rstrip(_)
rstrip(text) ==
    IF text # <<>> /\ text[Len(text)] \in Whitespace
    THEN rstrip(SubSeq(text, 1, Len(text) - 1))
    ELSE text

\* The pieces of a split, stripped, the empty ones dropped.
RECURSIVE stripped_pieces(_)
stripped_pieces(pieces) ==
    IF pieces = <<>> THEN <<>>
    ELSE LET sub == rstrip(lstrip(Head(pieces)))
         IN  (IF sub = <<>> THEN <<>> ELSE <<sub>>)
                 \o stripped_pieces(Tail(pieces))

\* re.split(r'(?<!["\'])\s*;\s*(?!["\'])', text): the text is cut at every
\* semicolon that has no quote right before it and none right after it.
\* The blanks the expression takes with the semicolon stay on the pieces
\* here; every caller strips them.
RECURSIVE split_semicolons_from(_, _, _)
split_semicolons_from(text, i, piece) ==
    IF i > Len(text) THEN <<piece>>
    ELSE IF /\ text[i] = ";"
            /\ (i = 1 \/ text[i - 1] \notin Quotes)
            /\ (i = Len(text) \/ text[i + 1] \notin Quotes)
         THEN <<piece>> \o split_semicolons_from(text, i + 1, <<>>)
         ELSE split_semicolons_from(text, i + 1, Append(piece, text[i]))

\* re.split(r"\s*(?:&&|\|\|)\s*", text): the text is cut at every && and
\* every ||, taken from the left.
RECURSIVE split_chains_from(_, _, _)
split_chains_from(text, i, piece) ==
    IF i > Len(text) THEN <<piece>>
    ELSE IF /\ i < Len(text)
            /\ text[i] \in {"&", "|"}
            /\ text[i + 1] = text[i]
         THEN <<piece>> \o split_chains_from(text, i + 2, <<>>)
         ELSE split_chains_from(text, i + 1, Append(piece, text[i]))

RECURSIVE split_each_at_semicolons(_)
split_each_at_semicolons(segments) ==
    IF segments = <<>> THEN <<>>
    ELSE stripped_pieces(split_semicolons_from(Head(segments), 1, <<>>))
             \o split_each_at_semicolons(Tail(segments))

split_command_segments(command_string) ==
    split_each_at_semicolons(split_chains_from(command_string, 1, <<>>))

\* shlex.split(text): the tokens are the runs between blanks; a quote opens
\* a stretch that runs to the same quote and keeps its blanks, and the
\* quotes themselves are dropped.  Ampersands, bars and semicolons are
\* characters like any other.  A quote left open raises ValueError.
RECURSIVE shlex_scan(_, _, _, _, _, _)
shlex_scan(text, i, token, started, quote, tokens) ==
    IF i > Len(text)
    THEN IF quote # "none" THEN [error |-> TRUE, tokens |-> <<>>]
         ELSE [error |-> FALSE,
               tokens |-> IF started THEN Append(tokens, token) ELSE tokens]
    ELSE LET c == text[i]
         IN  IF quote # "none"
             THEN IF c = quote
                  THEN shlex_scan(text, i + 1, token, TRUE, "none", tokens)
                  ELSE shlex_scan(text, i + 1, Append(token, c), TRUE, quote,
                                  tokens)
             ELSE IF c \in Quotes
                  THEN shlex_scan(text, i + 1, token, TRUE, c, tokens)
             ELSE IF c \in Whitespace
                  THEN shlex_scan(text, i + 1, <<>>, FALSE, "none",
                                  IF started THEN Append(tokens, token)
                                  ELSE tokens)
             ELSE shlex_scan(text, i + 1, Append(token, c), TRUE, "none",
                             tokens)

shlex_split(text) == shlex_scan(text, 1, <<>>, FALSE, "none", <<>>)

\* os.path.basename(token): what follows the last slash.
RECURSIVE basename(_)
basename(token) ==
    IF \E i \in 1..Len(token) : token[i] = "/"
    THEN basename(Tail(token))
    ELSE token

\* token.startswith("-").
startswith_dash(token) == token # <<>> /\ token[1] \in DashWords

ShellKeywords ==
    {<<w>> : w \in {"if", "then", "else", "elif", "fi", "for", "while",
                    "until", "do", "done", "case", "esac", "in", "!", "{",
                    "}"}}

\* The walk of extract_commands over the tokens of one segment.
RECURSIVE command_names(_, _)
command_names(tokens, expect_command) ==
    IF tokens = <<>> THEN <<>>
    ELSE LET token == Head(tokens)
         IN  IF token \in {<<"|">>, <<"|", "|">>, <<"&", "&">>, <<"&">>}
             THEN command_names(Tail(tokens), TRUE)
             ELSE IF \/ token \in ShellKeywords
                     \/ startswith_dash(token)
                     \/ \E i \in 1..Len(token) : token[i] \in AssignWords
             THEN command_names(Tail(tokens), expect_command)
             ELSE IF expect_command
             THEN <<basename(token)>> \o command_names(Tail(tokens), FALSE)
             ELSE command_names(Tail(tokens), FALSE)

RECURSIVE commands_of_segments(_)
commands_of_segments(segments) ==
    IF segments = <<>> THEN <<>>
    ELSE command_names(shlex_split(Head(segments)).tokens, TRUE)
             \o commands_of_segments(Tail(segments))

extract_commands(command_string) ==
    LET segments ==
            stripped_pieces(split_semicolons_from(command_string, 1, <<>>))
    IN  IF \E i \in 1..Len(segments) : shlex_split(segments[i]).error
        THEN <<>>
        ELSE commands_of_segments(segments)

\* The tokens after the first that do not begin with "-".
RECURSIVE without_flags(_)
without_flags(tokens) ==
    IF tokens = <<>> THEN <<>>
    ELSE (IF startswith_dash(Head(tokens)) THEN <<>> ELSE <<Head(tokens)>>)
             \o without_flags(Tail(tokens))

\* target.split()[0] of a target that holds a blank.
RECURSIVE first_word(_)
first_word(text) ==
    IF text = <<>> \/ Head(text) \in Whitespace THEN <<>>
    ELSE <<Head(text)>> \o first_word(Tail(text))

allowed_process_names == {<<w>> : w \in {"node", "npm", "npx", "vite", "next"}}

Passed == [allowed |-> TRUE, reason |-> ""]

Refused(reason) == [allowed |-> FALSE, reason |-> reason]

validate_pkill_command(command_string) ==
    LET parsed == shlex_split(command_string)
        args   == without_flags(Tail(parsed.tokens))
        last   == args[Len(args)]
        target == IF \E i \in 1..Len(last) : last[i] \in Whitespace
                  THEN first_word(lstrip(last))
                  ELSE last
    IN  IF parsed.error THEN Refused("Could not parse pkill command")
        ELSE IF parsed.tokens = <<>> THEN Refused("Empty pkill command")
        ELSE IF args = <<>> THEN Refused("pkill requires a process name")
        ELSE IF target \in allowed_process_names THEN Passed
        ELSE Refused("pkill only allowed for dev processes")

validate_chmod_command(command_string) ==
    LET parsed == shlex_split(command_string)
        rest   == Tail(parsed.tokens)
    IN  IF parsed.error THEN Refused("Could not parse chmod command")
        ELSE IF parsed.tokens = <<>> \/ parsed.tokens[1] # <<"chmod">>
        THEN Refused("Not a chmod command")
        ELSE IF \E i \in 1..Len(rest) : startswith_dash(rest[i])
        THEN Refused("chmod flags are not allowed")
        ELSE IF rest = <<>> THEN Refused("chmod requires a mode")
        ELSE IF Len(rest) < 2
        THEN Refused("chmod requires at least one file")
        ELSE IF ~(Len(rest[1]) = 1 /\ rest[1][1] \in PlusXWords)
        THEN Refused("chmod only allowed with +x mode")
        ELSE Passed

validate_init_script(command_string) ==
    LET parsed == shlex_split(command_string)
        script == parsed.tokens[1]
    IN  IF parsed.error THEN Refused("Could not parse init script command")
        ELSE IF parsed.tokens = <<>> THEN Refused("Empty command")
        ELSE IF \/ script = <<".", "/", "init.sh">>
                \/ /\ Len(script) >= 2
                   /\ SubSeq(script, Len(script) - 1, Len(script))
                          = <<"/", "init.sh">>
        THEN Passed
        ELSE Refused("Only ./init.sh is allowed")

\* The first segment that holds the command, or the empty string.
RECURSIVE get_command_for_validation(_, _)
get_command_for_validation(cmd, segments) ==
    IF segments = <<>> THEN <<>>
    ELSE IF \E i \in 1..Len(extract_commands(Head(segments))) :
                extract_commands(Head(segments))[i] = cmd
         THEN Head(segments)
         ELSE get_command_for_validation(cmd, Tail(segments))

\* The validator of a command that needs extra validation.
extra_validation(cmd, cmd_segment) ==
    IF cmd = <<"pkill">> THEN validate_pkill_command(cmd_segment)
    ELSE IF cmd = <<"chmod">> THEN validate_chmod_command(cmd_segment)
    ELSE validate_init_script(cmd_segment)

\* The hook returns {}.
Allow == [decision |-> "allow", reason |-> ""]

Block(reason) == [decision |-> "block", reason |-> reason]

\* The loop of bash_security_hook over the command names: the first name
\* that is refused blocks the command.
RECURSIVE check_commands(_, _, _)
check_commands(commands, segments, command) ==
    IF commands = <<>> THEN Allow
    ELSE LET cmd == Head(commands)
             found == get_command_for_validation(cmd, segments)
             cmd_segment == IF found = <<>> THEN command ELSE found
         IN  IF cmd \notin ALLOWED_COMMANDS
             THEN Block("Command is not in the allowed commands list")
             ELSE IF /\ cmd \in COMMANDS_NEEDING_EXTRA_VALIDATION
                     /\ ~extra_validation(cmd, cmd_segment).allowed
             THEN Block(extra_validation(cmd, cmd_segment).reason)
             ELSE check_commands(Tail(commands), segments, command)

bash_security_hook(input_data) ==
    LET command == input_data.command
        commands == extract_commands(command)
    IN  IF input_data.tool_name # "Bash" THEN Allow
        ELSE IF command = <<>> THEN Allow
        ELSE IF commands = <<>>
        THEN Block("Could not parse command for security validation")
        ELSE check_commands(commands, split_command_segments(command),
                            command)

\* The simple commands a compound command has at most.
MaxSegments == 2

\* The simple commands the agent writes.
SimpleCommands ==
    { <<"ls", " ", "f">>,
      <<"rm", " ", "f">>,
      <<"/", "bin", "/", "rm", " ", "f">>,
      <<"chmod", " ", "+x", " ", "f">>,
      <<"chmod", " ", "777", " ", "f">>,
      <<"pkill", " ", "-f", " ", "node">>,
      <<"pkill", " ", "bash">>,
      <<".", "/", "init.sh">>,
      <<"init.sh">>,
      <<"ls", " ", "'", "a", " ", "b", "'">>,
      <<"ls", " ", "'", "a">>,
      <<"A=1">> }

\* What the shell chains simple commands with: a pipe, &&, || and ;, with
\* blanks around them and without.
Joiners ==
    { <<" ", "|", " ">>, <<"|">>,
      <<" ", "&", "&", " ">>, <<"&", "&">>,
      <<" ", "|", "|", " ">>, <<"|", "|">>,
      <<";", " ">>, <<";">> }

RECURSIVE CompoundCommands(_)
CompoundCommands(n) ==
    IF n = 1 THEN SimpleCommands
    ELSE {a \o j \o b : a \in CompoundCommands(n - 1), j \in Joiners,
                        b \in SimpleCommands}

\* The hook is about to be called for a tool use.
HookInit ==
    /\ AgentAtRest
    /\ DispatcherAtRest
    /\ RunAtRest
    /\ hook_input \in
           [tool_name : {"Bash", "Read"},
            command : {<<>>} \cup
                      UNION {CompoundCommands(n) : n \in 1..MaxSegments}]
    /\ hook_output = NoHookOutput
    /\ max_iterations = None
    /\ iteration = 0
    /\ is_first_run = FALSE
    /\ auto_pc = "idle"
    /\ sessions = <<>>
    /\ status = "none"

HookCalled ==
    /\ hook_output = NoHookOutput
    /\ hook_output' = bash_security_hook(hook_input)
    /\ UNCHANGED <<hook_input, agentVars, dispVars, runVars, max_iterations,
                   iteration, is_first_run, auto_pc, sessions, status>>

SpecHook == HookInit /\ [][HookCalled]_vars

(***************************************************************************)
(* Claims about the hook, checked under SpecHook.                          *)
(***************************************************************************)

\* The simple commands the shell runs for a command line: the line is cut
\* outside quotes at every pipe, &&, || and semicolon, blanks or not.
RECURSIVE SimpleCommandsFrom(_, _, _, _)
SimpleCommandsFrom(text, i, piece, quote) ==
    IF i > Len(text) THEN <<piece>>
    ELSE LET c == text[i]
         IN  IF quote # "none"
             THEN SimpleCommandsFrom(text, i + 1, Append(piece, c),
                                     IF c = quote THEN "none" ELSE quote)
             ELSE IF c \in Quotes
             THEN SimpleCommandsFrom(text, i + 1, Append(piece, c), c)
             ELSE IF c \in {";", "|"}
             THEN <<piece>> \o SimpleCommandsFrom(text, i + 1, <<>>, "none")
             ELSE IF c = "&" /\ i < Len(text) /\ text[i + 1] = "&"
             THEN <<piece>> \o SimpleCommandsFrom(text, i + 2, <<>>, "none")
             ELSE SimpleCommandsFrom(text, i + 1, Append(piece, c), "none")

\* The command names of a command line: the first word of each of its
\* simple commands, variable assignments aside, without the path before it.
ShellCommandNames(command) ==
    LET pieces == stripped_pieces(SimpleCommandsFrom(command, 1, <<>>, "none"))
        words(i) == SelectSeq(shlex_split(pieces[i]).tokens,
                              LAMBDA token : \A k \in 1..Len(token) :
                                                token[k] \notin AssignWords)
    IN  {basename(words(i)[1]) :
            i \in {j \in 1..Len(pieces) :
                      /\ ~shlex_split(pieces[j]).error
                      /\ words(j) # <<>>}}

\* The hook was called for a Bash tool use with a command, and allowed it.
BashCommandAllowed ==
    /\ hook_input.tool_name = "Bash"
    /\ hook_input.command # <<>>
    /\ hook_output.decision = "allow"

\* C31: bash_security_hook allows a Bash command only if the command holds
\* a command name and every command name it holds, the first word of each
\* simple command across pipes, &&, || and ;, path stripped, is in
\* ALLOWED_COMMANDS.
C31_AllowedOnlyWithAllowedNames ==
    BashCommandAllowed =>
        /\ ShellCommandNames(hook_input.command) # {}
        /\ ShellCommandNames(hook_input.command) \subseteq ALLOWED_COMMANDS

\* C36: the hook allows a compound command only if every pkill, chmod and
\* init.sh in it passes its validator on the segment it occurs in.
C36_EveryOccurrenceValidated ==
    BashCommandAllowed =>
        LET segments == split_command_segments(hook_input.command)
        IN  \A i \in 1..Len(segments) :
                \A k \in 1..Len(extract_commands(segments[i])) :
                    LET cmd == extract_commands(segments[i])[k]
                    IN  cmd \in COMMANDS_NEEDING_EXTRA_VALIDATION =>
                            extra_validation(cmd, segments[i]).allowed

(***************************************************************************)
(* The loop of sessions of the autonomous coding agent                     *)
(* (src/autonomous-coding/agent.py, run_autonomous_agent).                 *)
(***************************************************************************)

\* The largest max_iterations the caller passes.
MaxIterations == 2

\* The sessions after which an unlimited loop is no longer followed.
MaxSessions == 4

\* What --max-iterations can carry: None, or any integer (type=int).
MaxIterationsArgs ==
    {None} \cup {[none |-> FALSE, n |-> n] : n \in -1..MaxIterations}

\* Python's truth value of max_iterations: None and 0 are false.
Truthy(m) == ~m.none /\ m.n # 0

\* run_autonomous_agent is called: the arguments are bound, the project
\* directory is looked at, and the loop is about to be entered.
AutoInit ==
    /\ AgentAtRest
    /\ DispatcherAtRest
    /\ RunAtRest
    /\ hook_input = NoHookInput
    /\ hook_output = NoHookOutput
    /\ max_iterations \in MaxIterationsArgs
    /\ is_first_run \in BOOLEAN
    /\ iteration = 0
    /\ auto_pc = "loop"
    /\ sessions = <<>>
    /\ status = "none"

\* The top of the while loop: the counter goes up, and the loop is left
\* when max_iterations is true and the counter has passed it.
AutoIterates ==
    /\ auto_pc = "loop"
    /\ iteration < MaxSessions
    /\ iteration' = iteration + 1
    /\ auto_pc' = IF Truthy(max_iterations) /\ iteration' > max_iterations.n
                  THEN "done"
                  ELSE "session"
    /\ UNCHANGED <<max_iterations, is_first_run, sessions, status, agentVars,
                   dispVars, runVars, hook_input, hook_output>>

\* A fresh client is made and a session is started with the initializer
\* prompt the first time and the coding prompt afterwards.
AutoSessionStarts ==
    /\ auto_pc = "session"
    /\ sessions' = Append(sessions,
                          IF is_first_run THEN "initializer" ELSE "coding")
    /\ is_first_run' = FALSE
    /\ auto_pc' = "in_session"
    /\ UNCHANGED <<max_iterations, iteration, status, agentVars, dispVars,
                   runVars, hook_input, hook_output>>

\* run_agent_session returns; after either status the loop goes round.
AutoSessionReturns ==
    /\ auto_pc = "in_session"
    /\ \E st \in {"continue", "error"} : status' = st
    /\ auto_pc' = "loop"
    /\ UNCHANGED <<max_iterations, iteration, is_first_run, sessions,
                   agentVars, dispVars, runVars, hook_input, hook_output>>

AutoNext ==
    \/ AutoIterates
    \/ AutoSessionStarts
    \/ AutoSessionReturns

SpecAuto == AutoInit /\ [][AutoNext]_vars

\* C32: for every integer max_iterations, run_autonomous_agent starts at
\* most max_iterations sessions (none for a negative one), whatever the
\* sessions return; only None is unlimited.
C32_AtMostMaxIterationsSessions ==
    ~max_iterations.none =>
        Len(sessions) <= (IF max_iterations.n < 0 THEN 0
                          ELSE max_iterations.n)

====
